---- MODULE Spec2Model ----
(***************************************************************************)
(* Model of the cache actions (setRedis, getRedis, deleteRedis,            *)
(* deleteKeysWithPrefix, deleteAllRedis) over the Redis commands they      *)
(* issue, and of the in-memory rate limiter (rateLimiter: a                *)
(* RateLimiterMemory of 5 points per 60 seconds); further on, of the       *)
(* helpers formatBytes and calculateGPT4oMiniCost, of the middleware and   *)
(* of the query retry policy.                                              *)
(*                                                                         *)
(* Strings are sequences of one-character strings, so that JSON text, key  *)
(* prefixes and glob patterns are computed character by character.        *)
(* Time is in milliseconds.                                                *)
(***************************************************************************)
EXTENDS Integers, Sequences, FiniteSets, TLC

VARIABLES
  now,        \* wall clock, ms
  store,      \* Redis keyspace: key -> [raw, expireAt]; DOMAIN = existing keys
  last,       \* the cache operation that completed last, with its outcome
  hist,       \* history: per key, the last write that reached the store
  dk,         \* deleteKeysWithPrefix call between its KEYS and its DEL
  reachable,  \* whether the client's commands reach the store
  sent,       \* the commands sent by the cache action that acted last
  storage,    \* RateLimiterMemory._memoryStorage._storage: rlKey -> Record
  rlLast,     \* the consume() call that completed last, with its RateLimiterRes
  win,        \* history: per caller key, the fixed window its calls fall in
  req,        \* parallel requests of one process that await consume()
  bytes,      \* formatBytes: the argument and the text returned
  cost,       \* calculateGPT4oMiniCost: the token counts and the cost returned
  mw,         \* middleware: the request in hand, the lookup's reply, the answer
  query,      \* a query: its state, failure count, attempts made, errors met
  db,         \* databaseTakeUniqueOrThrow: the rows given and the outcome
  act,        \* a server action call: its input, the SDK calls made, its outcome
  stream,     \* fetchStreamedText: the chunks read, the onChunk calls made, its end
  mut,        \* a mutation: its meta, its state, the toasts and invalidations it caused
  cl,         \* useClarity: the page, its components, clarityLoaded, the init calls
  so          \* SignOut: the signOut calls in flight, the toasts, the navigations

vars == <<now, store, last, hist, dk, reachable, sent, storage, rlLast, win, req, bytes, cost, mw, query, db, act, stream, mut, cl, so>>
cacheVars == <<store, last, hist, dk, reachable, sent>>
limiterVars == <<storage, rlLast, win, req>>
oldAppVars == <<bytes, cost, mw, query>>
uiVars == <<db, act, stream, mut, cl, so>>
appVars == <<oldAppVars, uiVars>>

(***************************************************************************)
(* JSON values (what JSON.stringify accepts and JSON.parse produces).      *)
(***************************************************************************)
JNull == [t |-> "null"]
JBool(b) == [t |-> "bool", b |-> b]
JNum(n) == [t |-> "num", n |-> n]
JStr(s) == [t |-> "str", s |-> s]
JArr(items) == [t |-> "arr", items |-> items]
JObj(members) == [t |-> "obj", members |-> members]
Member(k, v) == [k |-> k, v |-> v]

DigitChars == <<"0", "1", "2", "3", "4", "5", "6", "7", "8", "9">>
Digits == {DigitChars[i] : i \in 1..10}
DigitVal(c) == (CHOOSE i \in 1..10 : DigitChars[i] = c) - 1

RECURSIVE NatChars(_)
NatChars(n) ==
  IF n < 10 THEN <<DigitChars[n + 1]>>
  ELSE NatChars(n \div 10) \o <<DigitChars[(n % 10) + 1]>>

NumChars(n) == IF n < 0 THEN <<"-">> \o NatChars(0 - n) ELSE NatChars(n)

RECURSIVE Escape(_)
Escape(s) ==
  IF s = <<>> THEN <<>>
  ELSE IF Head(s) \in {"\"", "\\"} THEN <<"\\", Head(s)>> \o Escape(Tail(s))
  ELSE <<Head(s)>> \o Escape(Tail(s))

Quote(s) == <<"\"">> \o Escape(s) \o <<"\"">>

RECURSIVE JSONStringify(_), StringifyItems(_), StringifyMembers(_)
JSONStringify(v) ==
  CASE v.t = "null" -> <<"n", "u", "l", "l">>
    [] v.t = "bool" -> IF v.b THEN <<"t", "r", "u", "e">>
                       ELSE <<"f", "a", "l", "s", "e">>
    [] v.t = "num" -> NumChars(v.n)
    [] v.t = "str" -> Quote(v.s)
    [] v.t = "arr" -> <<"[">> \o StringifyItems(v.items) \o <<"]">>
    [] v.t = "obj" -> <<"{">> \o StringifyMembers(v.members) \o <<"}">>

StringifyItems(items) ==
  IF items = <<>> THEN <<>>
  ELSE IF Len(items) = 1 THEN JSONStringify(items[1])
  ELSE JSONStringify(items[1]) \o <<",">> \o StringifyItems(Tail(items))

StringifyMembers(ms) ==
  IF ms = <<>> THEN <<>>
  ELSE LET m == Quote(ms[1].k) \o <<":">> \o JSONStringify(ms[1].v)
       IN IF Len(ms) = 1 THEN m ELSE m \o <<",">> \o StringifyMembers(Tail(ms))

(***************************************************************************)
(* JSON.parse: recursive descent over the text.  A parse step returns      *)
(* [ok, v, rest]; the text is valid when one value and only white space    *)
(* make up the whole of it.                                                *)
(***************************************************************************)
ParseFail == [ok |-> FALSE, v |-> JNull, rest |-> <<>>]
ParseOk(v, rest) == [ok |-> TRUE, v |-> v, rest |-> rest]

RECURSIVE SkipWs(_)
SkipWs(s) == IF s # <<>> /\ Head(s) = " " THEN SkipWs(Tail(s)) ELSE s

IsPrefixOf(p, s) == Len(p) <= Len(s) /\ SubSeq(s, 1, Len(p)) = p
DropN(s, n) == SubSeq(s, n + 1, Len(s))

ParseLiteral(s, word, v) ==
  IF IsPrefixOf(word, s) THEN ParseOk(v, DropN(s, Len(word))) ELSE ParseFail

RECURSIVE ParseDigits(_, _)
ParseDigits(s, acc) ==
  IF s # <<>> /\ Head(s) \in Digits
  THEN ParseDigits(Tail(s), acc * 10 + DigitVal(Head(s)))
  ELSE ParseOk(acc, s)

\* integer part of the JSON number grammar: -? ( 0 | [1-9][0-9]* )
ParseNumber(s) ==
  LET neg == s # <<>> /\ Head(s) = "-"
      body == IF neg THEN Tail(s) ELSE s
  IN IF body = <<>> \/ Head(body) \notin Digits THEN ParseFail
     ELSE IF Head(body) = "0" THEN ParseOk(JNum(0), Tail(body))
     ELSE LET d == ParseDigits(body, 0)
          IN ParseOk(JNum(IF neg THEN 0 - d.v ELSE d.v), d.rest)

\* the characters after an opening quote, up to the closing one
RECURSIVE ParseChars(_, _)
ParseChars(s, acc) ==
  IF s = <<>> THEN ParseFail
  ELSE IF Head(s) = "\"" THEN ParseOk(acc, Tail(s))
  ELSE IF Head(s) = "\\"
       THEN IF Len(s) >= 2 /\ s[2] \in {"\"", "\\", "/"}
            THEN ParseChars(DropN(s, 2), Append(acc, s[2]))
            ELSE ParseFail
  ELSE ParseChars(Tail(s), Append(acc, Head(s)))

\* a later duplicate name overwrites the earlier member's value in place
RECURSIVE PutMember(_, _, _)
PutMember(ms, k, v) ==
  IF ms = <<>> THEN <<Member(k, v)>>
  ELSE IF ms[1].k = k THEN <<Member(k, v)>> \o Tail(ms)
  ELSE <<ms[1]>> \o PutMember(Tail(ms), k, v)

RECURSIVE ParseValue(_), ParseItems(_, _), ParseMembers(_, _)
ParseValue(s0) ==
  LET s == SkipWs(s0)
  IN IF s = <<>> THEN ParseFail
     ELSE CASE Head(s) = "n" -> ParseLiteral(s, <<"n", "u", "l", "l">>, JNull)
            [] Head(s) = "t" -> ParseLiteral(s, <<"t", "r", "u", "e">>, JBool(TRUE))
            [] Head(s) = "f" ->
                 ParseLiteral(s, <<"f", "a", "l", "s", "e">>, JBool(FALSE))
            [] Head(s) = "\"" ->
                 LET r == ParseChars(Tail(s), <<>>)
                 IN IF r.ok THEN ParseOk(JStr(r.v), r.rest) ELSE ParseFail
            [] Head(s) = "[" ->
                 LET t == SkipWs(Tail(s))
                 IN IF t # <<>> /\ Head(t) = "]" THEN ParseOk(JArr(<<>>), Tail(t))
                    ELSE ParseItems(t, <<>>)
            [] Head(s) = "{" ->
                 LET t == SkipWs(Tail(s))
                 IN IF t # <<>> /\ Head(t) = "}" THEN ParseOk(JObj(<<>>), Tail(t))
                    ELSE ParseMembers(t, <<>>)
            [] Head(s) \in Digits \cup {"-"} -> ParseNumber(s)
            [] OTHER -> ParseFail

ParseItems(s, acc) ==
  LET r == ParseValue(s)
      t == SkipWs(r.rest)
  IN IF ~r.ok \/ t = <<>> THEN ParseFail
     ELSE IF Head(t) = "]" THEN ParseOk(JArr(Append(acc, r.v)), Tail(t))
     ELSE IF Head(t) = "," THEN ParseItems(Tail(t), Append(acc, r.v))
     ELSE ParseFail

ParseMembers(s0, acc) ==
  LET s == SkipWs(s0)
  IN IF s = <<>> \/ Head(s) # "\"" THEN ParseFail
     ELSE LET k == ParseChars(Tail(s), <<>>)
              c == SkipWs(k.rest)
          IN IF ~k.ok \/ c = <<>> \/ Head(c) # ":" THEN ParseFail
             ELSE LET r == ParseValue(Tail(c))
                      t == SkipWs(r.rest)
                  IN IF ~r.ok \/ t = <<>> THEN ParseFail
                     ELSE IF Head(t) = "}"
                          THEN ParseOk(JObj(PutMember(acc, k.v, r.v)), Tail(t))
                     ELSE IF Head(t) = ","
                          THEN ParseMembers(Tail(t), PutMember(acc, k.v, r.v))
                     ELSE ParseFail

JSONParse(s) ==
  LET r == ParseValue(s)
  IN IF r.ok /\ SkipWs(r.rest) = <<>> THEN [ok |-> TRUE, v |-> r.v]
     ELSE [ok |-> FALSE, v |-> JNull]

(***************************************************************************)
(* The Redis commands the cache actions issue (src/config/redis.ts: one    *)
(* ioredis client).  A key that reaches its expiry time is gone: the       *)
(* keyspace is swept whenever the clock advances.                          *)
(***************************************************************************)
NoExpiry == 0 - 1
EmptyStore == [k \in {} |-> [raw |-> <<>>, expireAt |-> NoExpiry]]

Put(s, key, e) == [k \in DOMAIN s \cup {key} |-> IF k = key THEN e ELSE s[k]]
Without(s, keys) == [k \in DOMAIN s \ keys |-> s[k]]

Expired(e, t) == e.expireAt # NoExpiry /\ e.expireAt <= t
Sweep(s, t) == Without(s, {k \in DOMAIN s : Expired(s[k], t)})

\* SET key raw EX seconds: an expire time that is not positive is refused
RedisSetEx(s, key, raw, seconds, t) ==
  IF seconds <= 0 THEN [err |-> TRUE, s |-> s]
  ELSE [err |-> FALSE,
        s |-> Put(s, key, [raw |-> raw, expireAt |-> t + seconds * 1000])]

\* GET key: the bulk string, or nil
RedisGet(s, key) ==
  IF key \in DOMAIN s THEN [nil |-> FALSE, raw |-> s[key].raw]
  ELSE [nil |-> TRUE, raw |-> <<>>]

\* DEL key [key ...]: missing keys are skipped
RedisDel(s, keys) == Without(s, keys)

\* glob-style matching of KEYS: * any run, ? any one character, \x the
\* character x itself (character classes are not among the modelled inputs)
RECURSIVE GlobMatch(_, _)
GlobMatch(p, s) ==
  IF p = <<>> THEN s = <<>>
  ELSE CASE Head(p) = "*" ->
              GlobMatch(Tail(p), s) \/ (s # <<>> /\ GlobMatch(p, Tail(s)))
         [] Head(p) = "?" -> s # <<>> /\ GlobMatch(Tail(p), Tail(s))
         [] Head(p) = "\\" /\ Len(p) >= 2 ->
              s # <<>> /\ Head(s) = p[2] /\ GlobMatch(DropN(p, 2), Tail(s))
         [] OTHER -> s # <<>> /\ Head(s) = Head(p) /\ GlobMatch(Tail(p), Tail(s))

RedisKeys(s, pattern) == {k \in DOMAIN s : GlobMatch(pattern, k)}

RedisFlushAll == EmptyStore

(***************************************************************************)
(* Outcomes of a cache action, and the write history kept per key.         *)
(***************************************************************************)
Done == [kind |-> "ok", v |-> JNull]          \* resolved with no value
Absent == [kind |-> "absent", v |-> JNull]    \* resolved with undefined
Got(v) == [kind |-> "value", v |-> v]         \* resolved with a value
Failed == [kind |-> "error", v |-> JNull]     \* rejected with an error

Op(op, key, res) == [op |-> op, key |-> key, res |-> res]

\* history of a key: never written; written by setRedis(value, ttl) at a time,
\* over an entry due to expire at oldExpire; written by another client;
\* removed by a delete; removed by a flush
Never == [kind |-> "never", value |-> JNull, at |-> 0, ttl |-> <<>>,
          oldExpire |-> NoExpiry]
Gone == [Never EXCEPT !.kind = "deleted"]
Flushed == [Never EXCEPT !.kind = "flushed"]
Foreign == [Never EXCEPT !.kind = "raw"]
WasSet(value, at, ttl, old) ==
  [kind |-> "set", value |-> value, at |-> at, ttl |-> ttl, oldExpire |-> old]

\* when the entry a write replaces was due to expire
OldExpire(s, key) == IF key \in DOMAIN s THEN s[key].expireAt ELSE NoExpiry

Idle == [pc |-> "idle", prefix |-> <<>>, keys |-> {}, raced |-> FALSE]
\* a write by another request while a deleteKeysWithPrefix call is pending
Raced(d) == IF d.pc = "listed" THEN [d EXCEPT !.raced = TRUE] ELSE d

(***************************************************************************)
(* The cache actions.                                                      *)
(***************************************************************************)
REDIS_TTL == 60 * 60

\* a cache action whose command is rejected because the store cannot be
\* reached: the rejection passes through the await to the caller
Unreachable(op, key, cmds) ==
  /\ last' = Op(op, key, Failed)
  /\ sent' = cmds
  /\ UNCHANGED <<now, store, hist, dk, reachable, limiterVars, appVars>>

\* ttl is <<>> when the argument is omitted, <<n>> when it is given
Ttl(ttl) == IF ttl = <<>> THEN REDIS_TTL ELSE ttl[1]

\* SET ... KEEPTTL in place of EX: an existing entry keeps its expiry time
SetRedisKeepTtl(key, value, ttl) ==
  LET r == RedisSetEx(store, key, JSONStringify(value), Ttl(ttl), now)
      kept == IF key \in DOMAIN store /\ ~r.err
              THEN [r.s EXCEPT ![key].expireAt = store[key].expireAt]
              ELSE r.s
  IN /\ store' = kept
     /\ last' = Op("set", key, IF r.err THEN Failed ELSE Done)
     /\ hist' = IF r.err THEN hist
                ELSE [hist EXCEPT
                        ![key] = WasSet(value, now, ttl, OldExpire(store, key))]
     /\ dk' = IF r.err THEN dk ELSE Raced(dk)
     /\ sent' = <<"SET">>
     /\ UNCHANGED <<now, reachable, limiterVars, appVars>>

SetRedis(key, value, ttl) ==
  IF ~reachable THEN Unreachable("set", key, <<"SET">>) ELSE
  LET r == RedisSetEx(store, key, JSONStringify(value), Ttl(ttl), now)
  IN /\ store' = r.s
     /\ last' = Op("set", key, IF r.err THEN Failed ELSE Done)
     /\ hist' = IF r.err THEN hist
                ELSE [hist EXCEPT
                        ![key] = WasSet(value, now, ttl, OldExpire(store, key))]
     /\ dk' = IF r.err THEN dk ELSE Raced(dk)
     /\ sent' = <<"SET">>
     /\ UNCHANGED <<now, reachable, limiterVars, appVars>>

\* value ? JSON.parse(value) : undefined
Truthy(reply) == ~reply.nil /\ reply.raw # <<>>

Falsy(v) ==
  \/ v.t = "null"
  \/ v.t = "bool" /\ ~v.b
  \/ v.t = "num" /\ v.n = 0
  \/ v.t = "str" /\ v.s = <<>>

\* JSON.parse(value) || undefined: the test made on the parsed value
GetRedisFalsy(key) ==
  LET value == RedisGet(store, key)
      parsed == JSONParse(value.raw)
  IN /\ last' = Op("get", key,
                   IF value.nil THEN Absent
                   ELSE IF ~parsed.ok THEN Failed
                   ELSE IF Falsy(parsed.v) THEN Absent
                   ELSE Got(parsed.v))
     /\ sent' = <<"GET">>
     /\ UNCHANGED <<now, reachable, store, hist, dk, limiterVars, appVars>>

\* JSON.parse(value) with no test: JSON.parse(null) is null
GetRedisNoGuard(key) ==
  LET value == RedisGet(store, key)
      parsed == JSONParse(value.raw)
  IN /\ last' = Op("get", key,
                   IF value.nil THEN Got(JNull)
                   ELSE IF parsed.ok THEN Got(parsed.v) ELSE Failed)
     /\ sent' = <<"GET">>
     /\ UNCHANGED <<now, reachable, store, hist, dk, limiterVars, appVars>>

\* a read that catches the rejected command and reports a miss
GetRedisSwallow(key) ==
  LET value == RedisGet(store, key)
      parsed == JSONParse(value.raw)
  IN /\ last' = Op("get", key,
                   IF ~reachable THEN Absent
                   ELSE IF Truthy(value)
                   THEN IF parsed.ok THEN Got(parsed.v) ELSE Failed
                   ELSE Absent)
     /\ sent' = <<"GET">>
     /\ UNCHANGED <<now, reachable, store, hist, dk, limiterVars, appVars>>

GetRedis(key) ==
  IF ~reachable THEN Unreachable("get", key, <<"GET">>) ELSE
  LET value == RedisGet(store, key)
      parsed == JSONParse(value.raw)
  IN /\ last' = Op("get", key,
                   IF Truthy(value)
                   THEN IF parsed.ok THEN Got(parsed.v) ELSE Failed
                   ELSE Absent)
     /\ sent' = <<"GET">>
     /\ UNCHANGED <<now, reachable, store, hist, dk, limiterVars, appVars>>

\* a delete that throws when DEL reports that it removed nothing
DeleteRedisStrict(key) ==
  /\ store' = RedisDel(store, {key})
  /\ last' = Op("del", key, IF key \in DOMAIN store THEN Done ELSE Failed)
  /\ hist' = [hist EXCEPT ![key] = Gone]
  /\ dk' = Raced(dk)
  /\ sent' = <<"DEL">>
  /\ UNCHANGED <<now, reachable, limiterVars, appVars>>

DeleteRedis(key) ==
  IF ~reachable THEN Unreachable("del", key, <<"DEL">>) ELSE
  /\ store' = RedisDel(store, {key})
  /\ last' = Op("del", key, Done)
  /\ hist' = [hist EXCEPT ![key] = Gone]
  /\ dk' = Raced(dk)
  /\ sent' = <<"DEL">>
  /\ UNCHANGED <<now, reachable, limiterVars, appVars>>

\* first half of deleteKeysWithPrefix: KEYS `${prefix}*`, and the return
\* when it lists nothing
DeleteKeysWithPrefixList(prefix) ==
  LET keys == RedisKeys(store, prefix \o <<"*">>)
  IN /\ dk.pc = "idle"
     /\ IF ~reachable
        THEN /\ last' = Op("delPrefix", prefix, Failed)
             /\ dk' = dk
        ELSE IF keys = {}
        THEN /\ last' = Op("delPrefix", prefix, Done)
             /\ dk' = dk
        ELSE /\ last' = last
             /\ dk' = [pc |-> "listed", prefix |-> prefix, keys |-> keys,
                       raced |-> FALSE]
     /\ sent' = <<"KEYS">>
     /\ UNCHANGED <<now, reachable, store, hist, limiterVars, appVars>>

\* second half: DEL of the listed keys
DeleteKeysWithPrefixDel ==
  /\ dk.pc = "listed"
  /\ IF reachable
     THEN /\ store' = RedisDel(store, dk.keys)
          /\ last' = Op("delPrefix", dk.prefix, Done)
          /\ hist' = [k \in DOMAIN hist |->
                        IF k \in dk.keys THEN Gone ELSE hist[k]]
     ELSE /\ last' = Op("delPrefix", dk.prefix, Failed)
          /\ UNCHANGED <<store, hist>>
  /\ dk' = Idle
  /\ sent' = <<"KEYS", "DEL">>
  /\ UNCHANGED <<now, reachable, limiterVars, appVars>>

\* a flush written as DEL of KEYS a*
DeleteAllRedisPattern ==
  /\ store' = RedisDel(store, RedisKeys(store, <<"a", "*">>))
  /\ last' = Op("flush", <<>>, Done)
  /\ hist' = [k \in DOMAIN hist |-> IF k \in DOMAIN store THEN Flushed ELSE hist[k]]
  /\ dk' = Raced(dk)
  /\ sent' = <<"KEYS", "DEL">>
  /\ UNCHANGED <<now, reachable, limiterVars, appVars>>

DeleteAllRedis ==
  IF ~reachable THEN Unreachable("flush", <<>>, <<"FLUSHALL">>) ELSE
  /\ store' = RedisFlushAll
  /\ last' = Op("flush", <<>>, Done)
  /\ hist' = [k \in DOMAIN hist |-> IF k \in DOMAIN store THEN Flushed ELSE hist[k]]
  /\ dk' = Raced(dk)
  /\ sent' = <<"FLUSHALL">>
  /\ UNCHANGED <<now, reachable, limiterVars, appVars>>

\* the connection to the store is lost, and comes back
Disconnect ==
  /\ reachable
  /\ reachable' = FALSE
  /\ UNCHANGED <<now, store, last, hist, dk, sent, limiterVars, appVars>>

Reconnect ==
  /\ ~reachable
  /\ reachable' = TRUE
  /\ UNCHANGED <<now, store, last, hist, dk, sent, limiterVars, appVars>>

\* another client of the same store writes a string of its own (plain SET)
ForeignWrite(key, raw) ==
  /\ store' = Put(store, key, [raw |-> raw, expireAt |-> NoExpiry])
  /\ last' = Op("foreign", key, Done)
  /\ hist' = [hist EXCEPT ![key] = Foreign]
  /\ dk' = Raced(dk)
  /\ UNCHANGED <<now, reachable, sent, limiterVars, appVars>>

\* the clock advances to a later instant; expired keys leave the keyspace
Tick(t) ==
  /\ t > now
  /\ now' = t
  /\ store' = Sweep(store, t)
  /\ last' = Op("tick", <<>>, Done)
  /\ UNCHANGED <<hist, dk, reachable, sent, limiterVars, appVars>>

(***************************************************************************)
(* The rate limiter: new RateLimiterMemory({ points: 5, duration: 60 }).   *)
(* consume(key) adds one point to the key's record; a record lives for one *)
(* duration from the call that created it, and a timer set with it deletes *)
(* it at or after that time.                                               *)
(***************************************************************************)
Points == 5
Duration == 60
DurationMs == Duration * 1000

\* the storage key of a caller key: keyPrefix 'rlflx', then the key
\* one storage key for every caller key
GetKeyShared(key) == <<"rlflx", "">>

GetKey(key) == <<"rlflx", key>>

Res(msBeforeNext, consumedPoints, isFirstInDuration) ==
  [msBeforeNext |-> msBeforeNext, consumedPoints |-> consumedPoints,
   isFirstInDuration |-> isFirstInDuration]

\* MemoryStorage.set: a new record, whatever was there, and a new timer
StorageSet(st, rlKey, value, t) ==
  [st |-> [k \in DOMAIN st \cup {rlKey} |->
             IF k = rlKey THEN [value |-> value, expiresAt |-> t + DurationMs]
             ELSE st[k]],
   res |-> Res(DurationMs, value, TRUE)]

\* incrby without the test of the time left
StorageIncrbyNoReset(st, rlKey, value, t) ==
  IF rlKey \in DOMAIN st
  THEN [st |-> [st EXCEPT ![rlKey].value = @ + value],
        res |-> Res(st[rlKey].expiresAt - t, st[rlKey].value + value, FALSE)]
  ELSE StorageSet(st, rlKey, value, t)

\* incrby that restarts the record's time on every call (a sliding window)
StorageIncrbySliding(st, rlKey, value, t) ==
  IF rlKey \in DOMAIN st /\ st[rlKey].expiresAt - t > 0
  THEN [st |-> [st EXCEPT ![rlKey] = [value |-> @.value + value,
                                       expiresAt |-> t + DurationMs]],
        res |-> Res(DurationMs, st[rlKey].value + value, FALSE)]
  ELSE StorageSet(st, rlKey, value, t)

\* incrby that reports the whole duration as the time left
StorageIncrbyFullWait(st, rlKey, value, t) ==
  IF rlKey \in DOMAIN st /\ st[rlKey].expiresAt - t > 0
  THEN [st |-> [st EXCEPT ![rlKey].value = @ + value],
        res |-> Res(DurationMs, st[rlKey].value + value, FALSE)]
  ELSE StorageSet(st, rlKey, value, t)

\* MemoryStorage.incrby: add to a record that has time left, else start over
StorageIncrby(st, rlKey, value, t) ==
  IF rlKey \in DOMAIN st /\ st[rlKey].expiresAt - t > 0
  THEN [st |-> [st EXCEPT ![rlKey].value = @ + value],
        res |-> Res(st[rlKey].expiresAt - t, st[rlKey].value + value, FALSE)]
  ELSE StorageSet(st, rlKey, value, t)

Max(a, b) == IF a >= b THEN a ELSE b

\* history of a caller key: the 60 s window that began with its first call
\* (or its first call after the window before had run out), the calls made
\* and accepted in it, and whether the window before ended over 5 calls
NoWindow == [start |-> 0, calls |-> 0, accepted |-> 0, prevOver |-> FALSE]
Window(w, t, ok) ==
  IF w.calls = 0 \/ t >= w.start + 60000
  THEN [start |-> t, calls |-> 1, accepted |-> IF ok THEN 1 ELSE 0,
        prevOver |-> w.calls > 5]
  ELSE [w EXCEPT !.calls = @ + 1, !.accepted = IF ok THEN @ + 1 ELSE @]

MaxPoints == 7

\* consume with the budget test off by one (>= points)
ConsumeStrict(key) ==
  LET rlKey == GetKey(key)
      r == StorageIncrby(storage, rlKey, 1, now)
      ok == ~(r.res.consumedPoints >= Points)
  IN /\ ~(/\ rlKey \in DOMAIN storage
           /\ storage[rlKey].expiresAt > now
           /\ storage[rlKey].value >= MaxPoints)
     /\ storage' = r.st
     /\ rlLast' = [op |-> "consume", key |-> key, at |-> now, ok |-> ok,
                   msBeforeNext |-> r.res.msBeforeNext,
                   consumedPoints |-> r.res.consumedPoints,
                   remainingPoints |-> Max(Points - r.res.consumedPoints, 0),
                   isFirstInDuration |-> r.res.isFirstInDuration]
     /\ win' = [win EXCEPT ![key] = Window(@, now, ok)]
     /\ UNCHANGED <<now, cacheVars, appVars, req>>

\* rateLimiter.consume(key), one point
Consume(key) ==
  LET rlKey == GetKey(key)
      r == StorageIncrby(storage, rlKey, 1, now)
      ok == ~(r.res.consumedPoints > Points)
  IN /\ ~(/\ rlKey \in DOMAIN storage
           /\ storage[rlKey].expiresAt > now
           /\ storage[rlKey].value >= MaxPoints)
     /\ storage' = r.st
     /\ rlLast' = [op |-> "consume", key |-> key, at |-> now, ok |-> ok,
                   msBeforeNext |-> r.res.msBeforeNext,
                   consumedPoints |-> r.res.consumedPoints,
                   remainingPoints |-> Max(Points - r.res.consumedPoints, 0),
                   isFirstInDuration |-> r.res.isFirstInDuration]
     /\ win' = [win EXCEPT ![key] = Window(@, now, ok)]
     /\ UNCHANGED <<now, cacheVars, appVars, req>>

\* the record's timer fires, at its expiry time or later
TimerFire(rlKey) ==
  /\ rlKey \in DOMAIN storage
  /\ storage[rlKey].expiresAt <= now
  /\ storage' = [k \in DOMAIN storage \ {rlKey} |-> storage[k]]
  /\ UNCHANGED <<now, cacheVars, appVars, rlLast, win, req>>

(***************************************************************************)
(* Parallel requests of one process.  A request handler reaches its        *)
(* `await rateLimiter.consume(key)`: the call runs consume to its end (the *)
(* promise executor is synchronous), and the handler resumes later with    *)
(* the settled promise, after any number of other requests' calls.         *)
(***************************************************************************)
NoRequest == [pc |-> "idle", key |-> "", seen |-> 0, ok |-> TRUE]

\* the counter of the key's record as a request finds it
Counter(rlKey) ==
  IF rlKey \in DOMAIN storage /\ storage[rlKey].expiresAt > now
  THEN storage[rlKey].value ELSE 0

\* a request arrives and runs up to its consume call
RequestArrive(r, key) ==
  /\ req[r].pc = "idle"
  /\ req' = [req EXCEPT ![r] = [pc |-> "ready", key |-> key,
                                seen |-> Counter(GetKey(key)), ok |-> TRUE]]
  /\ UNCHANGED <<now, cacheVars, appVars, storage, rlLast, win>>

\* a consume that writes back the counter it read when the request arrived
RequestCallStale(r) ==
  LET key == req[r].key
      rlKey == GetKey(key)
      r0 == StorageIncrby(storage, rlKey, 1, now)
      points == IF r0.res.isFirstInDuration THEN 1 ELSE req[r].seen + 1
      ok == ~(points > Points)
  IN /\ req[r].pc = "ready"
     /\ Counter(rlKey) < MaxPoints
     /\ storage' = [r0.st EXCEPT ![rlKey].value = points]
     /\ rlLast' = [op |-> "consume", key |-> key, at |-> now, ok |-> ok,
                   msBeforeNext |-> r0.res.msBeforeNext,
                   consumedPoints |-> points,
                   remainingPoints |-> Max(Points - points, 0),
                   isFirstInDuration |-> r0.res.isFirstInDuration]
     /\ win' = [win EXCEPT ![key] = Window(@, now, ok)]
     /\ req' = [req EXCEPT ![r].pc = "awaiting", ![r].ok = ok]
     /\ UNCHANGED <<now, cacheVars, appVars>>

\* the request calls rateLimiter.consume(key): incrby and the budget test
RequestCall(r) ==
  LET key == req[r].key
      rlKey == GetKey(key)
      r0 == StorageIncrby(storage, rlKey, 1, now)
      ok == ~(r0.res.consumedPoints > Points)
  IN /\ req[r].pc = "ready"
     /\ Counter(rlKey) < MaxPoints
     /\ storage' = r0.st
     /\ rlLast' = [op |-> "consume", key |-> key, at |-> now, ok |-> ok,
                   msBeforeNext |-> r0.res.msBeforeNext,
                   consumedPoints |-> r0.res.consumedPoints,
                   remainingPoints |-> Max(Points - r0.res.consumedPoints, 0),
                   isFirstInDuration |-> r0.res.isFirstInDuration]
     /\ win' = [win EXCEPT ![key] = Window(@, now, ok)]
     /\ req' = [req EXCEPT ![r].pc = "awaiting", ![r].ok = ok]
     /\ UNCHANGED <<now, cacheVars, appVars>>

\* the handler resumes after its await, with the promise resolved or rejected
RequestResume(r) ==
  /\ req[r].pc = "awaiting"
  /\ req' = [req EXCEPT ![r] = NoRequest]
  /\ UNCHANGED <<now, cacheVars, appVars, storage, rlLast, win>>

(***************************************************************************)
(* formatBytes (src/helpers/fetch-streamed-text.ts).  The units are        *)
(* Cyrillic words; each letter is written here by its code point.          *)
(***************************************************************************)
Bajt == <<"u0431", "u0430", "u0439", "u0442">>
KB == <<"u041A", "u0411">>
MB == <<"u041C", "u0411">>

\* (num / den).toFixed(2) for num >= 0 and den a power of two: the quotient
\* is exact, and of two nearest hundredths toFixed takes the larger
ToFixed2(num, den) ==
  LET q == num \div den
      r == num % den
      h == q * 100 + (r * 100 + den \div 2) \div den
  IN NatChars(h \div 100) \o <<".">>
       \o <<DigitChars[((h % 100) \div 10) + 1], DigitChars[(h % 10) + 1]>>

\* the thresholds taken inclusively
formatBytesInclusive(b) ==
  IF b <= 1024 THEN NumChars(b) \o <<" ">> \o Bajt
  ELSE IF b <= 1024 * 1024 THEN ToFixed2(b, 1024) \o <<" ">> \o KB
  ELSE ToFixed2(b, 1024 * 1024) \o <<" ">> \o MB

formatBytes(b) ==
  IF b < 1024 THEN NumChars(b) \o <<" ">> \o Bajt
  ELSE IF b < 1024 * 1024 THEN ToFixed2(b, 1024) \o <<" ">> \o KB
  ELSE ToFixed2(b, 1024 * 1024) \o <<" ">> \o MB

\* a caller formats a byte count
FormatBytes(b) ==
  /\ bytes' = [arg |-> b, text |-> formatBytes(b)]
  /\ UNCHANGED <<now, cacheVars, limiterVars, cost, mw, query, uiVars>>

(***************************************************************************)
(* calculateGPT4oMiniCost (src/helpers/ai-cost.ts) computes in IEEE 754     *)
(* doubles.  A double is zero or m * 2^exp with a mantissa m of 53 bits.    *)
(* Whole numbers of any size are written in base 1024, lowest digit first;  *)
(* every operation takes the exact result and rounds it to the nearest      *)
(* double, ties to even.                                                    *)
(***************************************************************************)
RECURSIVE NatLimbs(_)
NatLimbs(n) == IF n = 0 THEN <<>> ELSE <<n % 1024>> \o NatLimbs(n \div 1024)

\* without the zero digits at the high end
RECURSIVE Trim(_)
Trim(a) ==
  IF a = <<>> \/ a[Len(a)] # 0 THEN a ELSE Trim(SubSeq(a, 1, Len(a) - 1))

RECURSIVE AddLimbs(_, _, _)
AddLimbs(a, b, carry) ==
  IF a = <<>> /\ b = <<>> THEN NatLimbs(carry)
  ELSE LET x == IF a = <<>> THEN 0 ELSE Head(a)
           y == IF b = <<>> THEN 0 ELSE Head(b)
           t == x + y + carry
       IN <<t % 1024>> \o AddLimbs(IF a = <<>> THEN a ELSE Tail(a),
                                   IF b = <<>> THEN b ELSE Tail(b),
                                   t \div 1024)

\* a - b for a >= b
RECURSIVE SubLimbs(_, _, _)
SubLimbs(a, b, borrow) ==
  IF a = <<>> THEN <<>>
  ELSE LET y == IF b = <<>> THEN 0 ELSE Head(b)
           t == Head(a) - y - borrow
       IN <<t % 1024>> \o SubLimbs(Tail(a), IF b = <<>> THEN b ELSE Tail(b),
                                   IF t < 0 THEN 1 ELSE 0)

\* a <= b, for numbers without high zero digits
RECURSIVE LeqLimbs(_, _)
LeqLimbs(a, b) ==
  IF Len(a) # Len(b) THEN Len(a) < Len(b)
  ELSE IF a = <<>> THEN TRUE
  ELSE IF a[Len(a)] # b[Len(b)] THEN a[Len(a)] < b[Len(b)]
  ELSE LeqLimbs(Trim(SubSeq(a, 1, Len(a) - 1)), Trim(SubSeq(b, 1, Len(b) - 1)))

\* a * k + carry for a small k
RECURSIVE MulLimbs(_, _, _)
MulLimbs(a, k, carry) ==
  IF a = <<>> THEN NatLimbs(carry)
  ELSE LET t == Head(a) * k + carry
       IN <<t % 1024>> \o MulLimbs(Tail(a), k, t \div 1024)

\* quotient and remainder of a by a small d
RECURSIVE DivLimbs(_, _)
DivLimbs(a, d) ==
  IF a = <<>> THEN [q |-> <<>>, r |-> 0]
  ELSE LET hi == DivLimbs(Tail(a), d)
           t == hi.r * 1024 + Head(a)
       IN [q |-> <<t \div d>> \o hi.q, r |-> t % d]

RECURSIVE Pow(_, _)
Pow(b, k) == IF k = 0 THEN 1 ELSE b * Pow(b, k - 1)

RECURSIVE BitLenNat(_)
BitLenNat(n) == IF n = 0 THEN 0 ELSE 1 + BitLenNat(n \div 2)
BitLen(a) == IF a = <<>> THEN 0 ELSE 10 * (Len(a) - 1) + BitLenNat(a[Len(a)])

ShiftLeft(a, s) ==
  IF a = <<>> THEN a
  ELSE [i \in 1..(s \div 10) |-> 0] \o Trim(MulLimbs(a, Pow(2, s % 10), 0))

\* a without its s low bits, and whether one of those bits was set
ShiftRight(a, s) ==
  LET d == DivLimbs(SubSeq(a, (s \div 10) + 1, Len(a)), Pow(2, s % 10))
  IN [q |-> Trim(d.q),
      inexact |-> d.r # 0 \/ \E i \in 1..(s \div 10) : a[i] # 0]

\* the quotient of a by 10^k, and whether the division left a remainder
RECURSIVE DivPow10(_, _)
DivPow10(a, k) ==
  IF k = 0 THEN [q |-> a, inexact |-> FALSE]
  ELSE LET j == IF k >= 4 THEN 4 ELSE k
           d == DivLimbs(a, Pow(10, j))
           rest == DivPow10(Trim(d.q), k - j)
       IN [q |-> rest.q, inexact |-> d.r # 0 \/ rest.inexact]

Zero == [m |-> <<>>, exp |-> 0]

\* the double nearest to a * 2^e (plus a fraction of 2^e, when more is set),
\* ties to even
Round(a, e, more) ==
  IF a = <<>> THEN Zero
  ELSE IF BitLen(a) <= 53
  THEN [m |-> ShiftLeft(a, 53 - BitLen(a)), exp |-> e - (53 - BitLen(a))]
  ELSE LET k == BitLen(a) - 53
           low == ShiftRight(a, k - 1)
           kept == Trim(DivLimbs(low.q, 2).q)
           up == /\ low.q[1] % 2 = 1
                 /\ low.inexact \/ more \/ kept[1] % 2 = 1
           r == IF up THEN Trim(AddLimbs(kept, <<1>>, 0)) ELSE kept
       IN IF BitLen(r) = 54
          THEN [m |-> Trim(DivLimbs(r, 2).q), exp |-> e + k + 1]
          ELSE [m |-> r, exp |-> e + k]

\* the double a decimal literal n * 10^-k denotes
FromDecimal(n, k) ==
  LET d == DivPow10(ShiftLeft(NatLimbs(n), 90), k)
  IN Round(d.q, 0 - 90, d.inexact)

\* n * x for a whole number n of tokens
FMul(n, x) ==
  IF n = 0 THEN Zero ELSE Round(Trim(MulLimbs(x.m, n, 0)), x.exp, FALSE)

FAdd(x, y) ==
  IF x = Zero THEN y
  ELSE IF y = Zero THEN x
  ELSE LET e == IF x.exp <= y.exp THEN x.exp ELSE y.exp
       IN Round(Trim(AddLimbs(ShiftLeft(x.m, x.exp - e),
                              ShiftLeft(y.m, y.exp - e), 0)), e, FALSE)

\* AI_MODELS.CHATGPT['4o-mini'].cost
PromptRate == FromDecimal(15, 8)
CompletionRate == FromDecimal(6, 7)

\* the two rates taken the other way round
calculateGPT4oMiniCostSwapped(promptTokens, completionTokens) ==
  FAdd(FMul(promptTokens, CompletionRate), FMul(completionTokens, PromptRate))

calculateGPT4oMiniCost(promptTokens, completionTokens) ==
  FAdd(FMul(promptTokens, PromptRate), FMul(completionTokens, CompletionRate))

\* a caller prices a generation
CalculateCost(promptTokens, completionTokens) ==
  /\ cost' = [called |-> TRUE, promptTokens |-> promptTokens,
              completionTokens |-> completionTokens,
              usd |-> calculateGPT4oMiniCost(promptTokens, completionTokens)]
  /\ UNCHANGED <<now, cacheVars, limiterVars, bytes, mw, query, uiVars>>

(***************************************************************************)
(* The middleware (src/middleware.ts).  It runs for the requests the        *)
(* matcher names, asks /api/auth/get-session for the session of the         *)
(* request's cookies, and answers once the lookup has settled.  The lookup  *)
(* ($fetch, without the throw option) returns {data, error}: the session    *)
(* object or null on a 2xx answer, null data and an error on any other      *)
(* status; it throws when the request cannot be made.                       *)
(***************************************************************************)
matcher ==
  { "/auth/sign-in", "/auth/sign-up", "/auth/magic-link",
    "/auth/forgot-password", "/auth/two-factor", "/auth/recover-account",
    "/auth/reset-password", "/auth/sign-out", "/auth/settings",
    "/auth/callback" }

Reply(data, error) == [threw |-> FALSE, data |-> data, error |-> error]
Thrown == [threw |-> TRUE, data |-> JNull, error |-> TRUE]

Response(kind, to) == [kind |-> kind, to |-> to]

\* the session get-session holds for a cookie: none, or that of a user
SessionData(cookie) ==
  IF cookie = "none" THEN JNull
  ELSE JObj(<<Member(<<"r", "o", "l", "e">>, JStr(<<cookie>>))>>)

\* what the lookup can come to for a request with this cookie
Replies(cookie) ==
  {Reply(SessionData(cookie), FALSE), Reply(JNull, TRUE), Thrown}

\* the account pages left open to a signed-in user
middlewareSparesAccount(path, session) ==
  IF session.threw THEN Response("error", "")
  ELSE IF ~Falsy(session.data) /\ path \notin {"/auth/sign-out", "/auth/settings"}
  THEN Response("redirect", "/")
  ELSE Response("next", "")

\* the body of middleware after its await
middleware(path, session) ==
  IF session.threw THEN Response("error", "")
  ELSE IF ~Falsy(session.data) THEN Response("redirect", "/")
  ELSE Response("next", "")

\* a request arrives; the middleware starts on it when the matcher names its
\* path, and the page is served without it otherwise
MiddlewareRequest(path, cookie) ==
  /\ mw.pc # "lookup"
  /\ mw' = [pc |-> IF path \in matcher THEN "lookup" ELSE "done",
            path |-> path, cookie |-> cookie,
            session |-> Reply(JNull, FALSE),
            response |-> IF path \in matcher THEN Response("none", "")
                         ELSE Response("page", "")]
  /\ UNCHANGED <<now, cacheVars, limiterVars, bytes, cost, query, uiVars>>

\* the lookup settles and the middleware answers
MiddlewareResume(session) ==
  /\ mw.pc = "lookup"
  /\ session \in Replies(mw.cookie)
  /\ mw' = [mw EXCEPT !.pc = "done", !.session = session,
                      !.response = middleware(mw.path, session)]
  /\ UNCHANGED <<now, cacheVars, limiterVars, bytes, cost, query, uiVars>>

(***************************************************************************)
(* The query retry policy (defaultOptions.queries.retry of the query        *)
(* client).  The query client calls it after each failed attempt with the   *)
(* number of failures before this one and the error; on true it counts the  *)
(* failure, waits and runs the query function again, on false the query     *)
(* ends in the error state.  An error is <<status>>, or <<>> when it        *)
(* carries no status.                                                       *)
(***************************************************************************)
\* one retry more
retryInclusive(failureCount, error) ==
  IF error # <<>> /\ error[1] >= 400 /\ error[1] < 500 THEN FALSE
  ELSE failureCount <= 2

retry(failureCount, error) ==
  IF error # <<>> /\ error[1] >= 400 /\ error[1] < 500 THEN FALSE
  ELSE failureCount < 2

\* a fetch of the query starts: its first attempt
QueryFetch ==
  /\ query.pc \in {"idle", "success", "error"}
  /\ query' = [pc |-> "fetching", failureCount |-> 0, attempts |-> 1,
               errors |-> <<>>]
  /\ UNCHANGED <<now, cacheVars, limiterVars, bytes, cost, mw, uiVars>>

\* the attempt under way fails with this error
QueryFail(error) ==
  /\ query.pc = "fetching"
  /\ query' = IF retry(query.failureCount, error)
              THEN [query EXCEPT !.pc = "waiting",
                                 !.failureCount = query.failureCount + 1,
                                 !.errors = Append(query.errors, error)]
              ELSE [query EXCEPT !.pc = "error",
                                 !.errors = Append(query.errors, error)]
  /\ UNCHANGED <<now, cacheVars, limiterVars, bytes, cost, mw, uiVars>>

\* the retry delay is over: the next attempt
QueryRetry ==
  /\ query.pc = "waiting"
  /\ query' = [query EXCEPT !.pc = "fetching", !.attempts = query.attempts + 1]
  /\ UNCHANGED <<now, cacheVars, limiterVars, bytes, cost, mw, uiVars>>

\* the attempt under way succeeds
QuerySucceed ==
  /\ query.pc = "fetching"
  /\ query' = [query EXCEPT !.pc = "success"]
  /\ UNCHANGED <<now, cacheVars, limiterVars, bytes, cost, mw, uiVars>>

(***************************************************************************)
(* databaseTakeUniqueOrThrow (src/database/index.ts).  The outcome of a     *)
(* call is what it returned: false, the rows given, or one row.  No path    *)
(* of it throws.                                                            *)
(***************************************************************************)
ReturnedFalse == [kind |-> "false", row |-> "", rows |-> <<>>]
ReturnedRows(values) == [kind |-> "rows", row |-> "", rows |-> values]
ReturnedRow(value) == [kind |-> "row", row |-> value, rows |-> <<>>]

databaseTakeUniqueOrThrow(values, inArray) ==
  IF Len(values) = 0 THEN ReturnedFalse
  ELSE IF inArray THEN ReturnedRows(values)
  ELSE ReturnedRow(values[1])

\* a caller hands over the rows of a select
TakeUnique(values, inArray) ==
  /\ db' = [called |-> TRUE, values |-> values, inArray |-> inArray,
            outcome |-> databaseTakeUniqueOrThrow(values, inArray)]
  /\ UNCHANGED <<now, cacheVars, limiterVars, oldAppVars, act, stream, mut, cl, so>>

(***************************************************************************)
(* The server actions that wrap an SDK call (src/actions/ai.ts, the bucket  *)
(* actions, src/actions/email.ts).  Each builds its request, awaits         *)
(* tryCatch(<the SDK call's promise>) and answers through response().  The  *)
(* SDK call settles as resolved with a value or as rejected; tryCatch turns *)
(* that into a success or a failure result and never rejects.               *)
(***************************************************************************)
Undefined == [t |-> "undefined"]
Nullish(v) == v.t \in {"null", "undefined"}

\* v[k] for a value that is not nullish
Prop(v, k) ==
  IF v.t = "obj" /\ \E i \in 1..Len(v.members) : v.members[i].k = k
  THEN v.members[CHOOSE i \in 1..Len(v.members) : v.members[i].k = k].v
  ELSE Undefined

\* v[0] for a value that is not nullish
First(v) == IF v.t = "arr" /\ v.items # <<>> THEN v.items[1] ELSE Undefined

\* x ?? undefined
OrUndefined(v) == IF Nullish(v) THEN Undefined ELSE v

Resolved(value) == [ok |-> TRUE, value |-> value]
Rejected == [ok |-> FALSE, value |-> Undefined]

tryCatch(settled) ==
  IF settled.ok THEN [status |-> "success", data |-> settled.value]
  ELSE [status |-> "failure", data |-> Undefined]
isFailure(result) == result.status = "failure"

response(message, data, success) ==
  [kind |-> "return", message |-> message, data |-> data, success |-> success]
Throws == [kind |-> "throw", message |-> "", data |-> Undefined, success |-> FALSE]
Pending == [kind |-> "none", message |-> "", data |-> Undefined, success |-> FALSE]

(***************************************************************************)
(* decodeURIComponent: %XX escapes are bytes of UTF-8 text.  One-byte and   *)
(* two-byte characters are decoded here (a two-byte character is written by *)
(* its code point); an escape that is cut short, is not hexadecimal or is   *)
(* not the start of a character makes the call throw a URIError.  Longer    *)
(* characters do not occur in the inputs below.                             *)
(***************************************************************************)
HexChars ==
  <<"0", "1", "2", "3", "4", "5", "6", "7", "8", "9", "A", "B", "C", "D", "E", "F">>
LowerHexChars ==
  <<"0", "1", "2", "3", "4", "5", "6", "7", "8", "9", "a", "b", "c", "d", "e", "f">>
IsHex(c) == \E i \in 1..16 : HexChars[i] = c \/ LowerHexChars[i] = c
HexVal(c) == (CHOOSE i \in 1..16 : HexChars[i] = c \/ LowerHexChars[i] = c) - 1

\* the characters of codes 32 to 126 (code 96 by its code point)
Ascii ==
  <<" ", "!", "\"", "#", "$", "%", "&", "'", "(", ")", "*", "+",
     ",", "-", ".", "/", "0", "1", "2", "3", "4", "5", "6", "7",
     "8", "9", ":", ";", "<", "=", ">", "?", "@", "A", "B", "C",
     "D", "E", "F", "G", "H", "I", "J", "K", "L", "M", "N", "O",
     "P", "Q", "R", "S", "T", "U", "V", "W", "X", "Y", "Z", "[",
     "\\", "]", "^", "_", "u0060", "a", "b", "c", "d", "e", "f", "g",
     "h", "i", "j", "k", "l", "m", "n", "o", "p", "q", "r", "s",
     "t", "u", "v", "w", "x", "y", "z", "{", "|", "}", "~">>

\* the character of a code point below 2048
CodePoint(n) ==
  IF n >= 32 /\ n <= 126 THEN Ascii[n - 31]
  ELSE <<"u", HexChars[(n \div 4096) + 1], HexChars[((n \div 256) % 16) + 1],
         HexChars[((n \div 16) % 16) + 1], HexChars[(n % 16) + 1]>>

\* the byte a %XX at the head of s stands for, -1 when there is none
EscapedByte(s) ==
  IF Len(s) >= 3 /\ s[1] = "%" /\ IsHex(s[2]) /\ IsHex(s[3])
  THEN 16 * HexVal(s[2]) + HexVal(s[3])
  ELSE 0 - 1

RECURSIVE decodeURIComponent(_)
decodeURIComponent(s) ==
  IF s = <<>> THEN [ok |-> TRUE, text |-> <<>>]
  ELSE IF Head(s) # "%"
  THEN LET rest == decodeURIComponent(Tail(s))
       IN [ok |-> rest.ok, text |-> <<Head(s)>> \o rest.text]
  ELSE LET b == EscapedByte(s)
           c == EscapedByte(SubSeq(s, 4, Len(s)))
       IN IF b >= 0 /\ b < 128
          THEN LET rest == decodeURIComponent(SubSeq(s, 4, Len(s)))
               IN [ok |-> rest.ok, text |-> <<CodePoint(b)>> \o rest.text]
          ELSE IF b >= 194 /\ b <= 223 /\ c >= 128 /\ c <= 191
          THEN LET rest == decodeURIComponent(SubSeq(s, 7, Len(s)))
               IN [ok |-> rest.ok,
                   text |-> <<CodePoint((b - 192) * 64 + (c - 128))>> \o rest.text]
          ELSE [ok |-> FALSE, text |-> <<>>]

(***************************************************************************)
(* A server action in two steps: up to its await (the request it builds    *)
(* and the SDK call it makes, or the answer it gives without one), and from *)
(* the settled SDK call to its answer.                                      *)
(***************************************************************************)
SdkCall(fn, arg) == [fn |-> fn, arg |-> arg]
Awaits(call) == [pc |-> "awaiting", calls |-> <<call>>, outcome |-> Pending]
Answers(outcome) == [pc |-> "done", calls |-> <<>>, outcome |-> outcome]

\* generateImage without its test of the prompt
BeginUnguarded(name, in) ==
  CASE name = "generateText" ->
         IF in.prompt = <<>>
         THEN Answers(response("Generate text: Prompt is required", Undefined, FALSE))
         ELSE Awaits(SdkCall("openaiClient.chat.completions.create", in.prompt))
    [] name = "generateObject" -> Awaits(SdkCall("generateObjectAi", in.prompt))
    [] name = "generateImage" ->
         Awaits(SdkCall("openaiClient.images.generate",
                        IF in.size = <<>> THEN <<"2", "5", "6", "x", "2", "5", "6">> ELSE in.size))
    [] name = "uploadObject" ->
         Awaits(SdkCall("r2.send(PutObjectCommand)",
                        IF in.contentType = <<>> THEN <<"t", "e", "x", "t", "/", "p", "l", "a", "i", "n">> ELSE in.contentType))
    [] name = "deleteObject" ->
         IF decodeURIComponent(in.key).ok
         THEN Awaits(SdkCall("r2.send(DeleteObjectCommand)",
                             decodeURIComponent(in.key).text))
         ELSE Answers(Throws)
    [] name = "sendEmail" -> Awaits(SdkCall("resend.emails.send", in.type))

Begin(name, in) ==
  CASE name = "generateText" ->
         IF in.prompt = <<>>
         THEN Answers(response("Generate text: Prompt is required", Undefined, FALSE))
         ELSE Awaits(SdkCall("openaiClient.chat.completions.create", in.prompt))
    [] name = "generateObject" -> Awaits(SdkCall("generateObjectAi", in.prompt))
    [] name = "generateImage" ->
         IF in.prompt = <<>>
         THEN Answers(response("Generate image: Prompt is required", Undefined, FALSE))
         ELSE Awaits(SdkCall("openaiClient.images.generate",
                             IF in.size = <<>> THEN <<"2", "5", "6", "x", "2", "5", "6">> ELSE in.size))
    [] name = "uploadObject" ->
         Awaits(SdkCall("r2.send(PutObjectCommand)",
                        IF in.contentType = <<>> THEN <<"t", "e", "x", "t", "/", "p", "l", "a", "i", "n">> ELSE in.contentType))
    [] name = "deleteObject" ->
         IF decodeURIComponent(in.key).ok
         THEN Awaits(SdkCall("r2.send(DeleteObjectCommand)",
                             decodeURIComponent(in.key).text))
         ELSE Answers(Throws)
    [] name = "sendEmail" -> Awaits(SdkCall("resend.emails.send", in.type))

FailureMessage(name) ==
  CASE name = "generateText" -> "Generate text: Text generation with ChatGPT failed"
    [] name = "generateObject" -> "Generate object: Object generation with ChatGPT failed"
    [] name = "generateImage" -> "Generate image: Image generation failed"
    [] name = "uploadObject" -> "Upload object: Failed to upload object"
    [] name = "deleteObject" -> "Delete object: Failed to delete object"
    [] name = "sendEmail" -> "Send email: Email sent failed"

\* result.data?.choices[0]?.message?.content ?? undefined; reading [0] of a
\* missing choices throws
TextOf(data) ==
  IF Nullish(data) THEN response("Text generated successfully", Undefined, TRUE)
  ELSE IF Nullish(Prop(data, <<"c", "h", "o", "i", "c", "e", "s">>)) THEN Throws
  ELSE LET choice == First(Prop(data, <<"c", "h", "o", "i", "c", "e", "s">>))
           message == IF Nullish(choice) THEN Undefined ELSE Prop(choice, <<"m", "e", "s", "s", "a", "g", "e">>)
           content == IF Nullish(message) THEN Undefined ELSE Prop(message, <<"c", "o", "n", "t", "e", "n", "t">>)
       IN response("Text generated successfully", OrUndefined(content), TRUE)

\* result.data?.data?.[0]?.url ?? undefined
UrlOf(data) ==
  LET list == IF Nullish(data) THEN Undefined ELSE Prop(data, <<"d", "a", "t", "a">>)
      image == IF Nullish(list) THEN Undefined ELSE First(list)
      url == IF Nullish(image) THEN Undefined ELSE Prop(image, <<"u", "r", "l">>)
  IN OrUndefined(url)

\* sendEmail letting the failure of the send go up to its caller
EndRethrow(name, settled) ==
  LET result == tryCatch(settled)
  IN IF isFailure(result)
     THEN IF name = "sendEmail" THEN Throws
          ELSE response(FailureMessage(name), Undefined, FALSE)
     ELSE CASE name = "generateText" -> TextOf(result.data)
            [] name = "generateObject" ->
                 response("Generate object: Object generated",
                          IF Nullish(result.data) THEN Undefined
                          ELSE Prop(result.data, <<"o", "b", "j", "e", "c", "t">>), TRUE)
            [] name = "generateImage" ->
                 response("Generate image: Image generated successfully",
                          UrlOf(result.data), TRUE)
            [] name = "uploadObject" ->
                 response("Upload object: Successfully uploaded object",
                          result.data, TRUE)
            [] name = "deleteObject" ->
                 response("Delete object: Successfully deleted object",
                          result.data, TRUE)
            [] name = "sendEmail" ->
                 response("Send email: Email sent successfully", result.data, TRUE)

End(name, settled) ==
  LET result == tryCatch(settled)
  IN IF isFailure(result)
     THEN response(FailureMessage(name), Undefined, FALSE)
     ELSE CASE name = "generateText" -> TextOf(result.data)
            [] name = "generateObject" ->
                 response("Generate object: Object generated",
                          IF Nullish(result.data) THEN Undefined
                          ELSE Prop(result.data, <<"o", "b", "j", "e", "c", "t">>), TRUE)
            [] name = "generateImage" ->
                 response("Generate image: Image generated successfully",
                          UrlOf(result.data), TRUE)
            [] name = "uploadObject" ->
                 response("Upload object: Successfully uploaded object",
                          result.data, TRUE)
            [] name = "deleteObject" ->
                 response("Delete object: Successfully deleted object",
                          result.data, TRUE)
            [] name = "sendEmail" ->
                 response("Send email: Email sent successfully", result.data, TRUE)

\* a server action is called and runs up to its await
ServerActionCall(name, in) ==
  /\ act.pc # "awaiting"
  /\ LET b == Begin(name, in)
     IN act' = [pc |-> b.pc, name |-> name, in |-> in, calls |-> b.calls,
                settled |-> Rejected, outcome |-> b.outcome]
  /\ UNCHANGED <<now, cacheVars, limiterVars, oldAppVars, db, stream, mut, cl, so>>

\* the SDK call settles and the action answers
ServerActionSettle(settled) ==
  /\ act.pc = "awaiting"
  /\ act' = [act EXCEPT !.pc = "done", !.settled = settled,
                        !.outcome = End(act.name, settled)]
  /\ UNCHANGED <<now, cacheVars, limiterVars, oldAppVars, db, stream, mut, cl, so>>

(***************************************************************************)
(* fetchStreamedText (src/helpers/fetch-streamed-text.ts).  It awaits the   *)
(* response, then reads the body chunk by chunk.  A chunk is a byte array   *)
(* (a sequence of byte values); reader.read() resolves to a chunk, or to    *)
(* done with no value when the stream has ended.  Any chunk read, an empty  *)
(* one too, is an object and so passes `if (value)`.                        *)
(***************************************************************************)
\* new TextDecoder().decode(chunk): UTF-8 of one- and two-byte characters; a
\* byte that starts or continues no character within the chunk becomes
\* U+FFFD.  Longer characters do not occur in the inputs below.
RECURSIVE decode(_)
decode(chunk) ==
  IF chunk = <<>> THEN <<>>
  ELSE IF chunk[1] < 128 THEN <<CodePoint(chunk[1])>> \o decode(Tail(chunk))
  ELSE IF /\ chunk[1] >= 194 /\ chunk[1] <= 223 /\ Len(chunk) >= 2
          /\ chunk[2] >= 128 /\ chunk[2] <= 191
  THEN <<CodePoint((chunk[1] - 192) * 64 + (chunk[2] - 128))>>
         \o decode(SubSeq(chunk, 3, Len(chunk)))
  ELSE <<"uFFFD">> \o decode(Tail(chunk))

\* the longest stream followed, in chunks
MaxChunks == 3

\* the call starts its fetch
StreamFetch ==
  /\ stream.pc \in {"idle", "returned", "threw"}
  /\ stream' = [pc |-> "fetching", read |-> <<>>, calls |-> <<>>, late |-> 0,
                error |-> ""]
  /\ UNCHANGED <<now, cacheVars, limiterVars, oldAppVars, db, act, mut, cl, so>>

\* the response arrives, with a body or without one
StreamResponse(hasBody) ==
  /\ stream.pc = "fetching"
  /\ stream' = IF hasBody THEN [stream EXCEPT !.pc = "reading"]
               ELSE [stream EXCEPT !.pc = "threw", !.error = "No response body"]
  /\ UNCHANGED <<now, cacheVars, limiterVars, oldAppVars, db, act, mut, cl, so>>

\* a final decoder flush handed to onChunk when the reader reports done
StreamDoneFlush ==
  /\ stream.pc = "reading"
  /\ stream' = [stream EXCEPT !.pc = "returned",
                              !.calls = Append(stream.calls, <<>>),
                              !.late = stream.late + 1]
  /\ UNCHANGED <<now, cacheVars, limiterVars, oldAppVars, db, act, mut, cl, so>>

\* reader.read() resolves with done and no value: the loop ends, the call
\* returns
StreamDone ==
  /\ stream.pc = "reading"
  /\ stream' = [stream EXCEPT !.pc = "returned"]
  /\ UNCHANGED <<now, cacheVars, limiterVars, oldAppVars, db, act, mut, cl, so>>

\* reader.read() resolves with a chunk: one turn of the loop
StreamRead(chunk) ==
  /\ stream.pc = "reading"
  /\ Len(stream.read) < MaxChunks
  /\ stream' = [stream EXCEPT !.read = Append(stream.read, chunk),
                              !.calls = Append(stream.calls, decode(chunk))]
  /\ UNCHANGED <<now, cacheVars, limiterVars, oldAppVars, db, act, mut, cl, so>>

(***************************************************************************)
(* The mutation cache callbacks of the query client.  A mutation runs its   *)
(* function, running it once more after a first failure (mutations.retry is *)
(* 1); when it succeeds the cache's onSuccess and then onSettled run, when  *)
(* it fails onError and then onSettled.  An optional field is <<>> when it  *)
(* is not set and <<value>> when it is.  The cache holds queries by key (a  *)
(* sequence of strings); a query is active while a component observes it.   *)
(***************************************************************************)
CachedQueries == {<<"users">>, <<"users", "1">>, <<"posts">>}

\* invalidateQueries({queryKey, exact: false, type: 'active'}): the active
\* queries whose key begins with queryKey
invalidateQueries(queryKey, active) ==
  {q \in CachedQueries : active[q] /\ IsPrefixOf(queryKey, q)}

Toast(kind, text) == [kind |-> kind, text |-> text]

\* mutationCache.onSuccess
onSuccess(meta) ==
  IF meta.successMessage # <<>> /\ meta.successMessage[1] # ""
  THEN <<Toast("success", meta.successMessage[1])>>
  ELSE <<>>

\* mutationCache.onError: meta.errorMessage || error.message || the default
onError(error, meta) ==
  <<Toast("error",
          IF meta.errorMessage # <<>> /\ meta.errorMessage[1] # ""
          THEN meta.errorMessage[1]
          ELSE IF error # "" THEN error
          ELSE "An unexpected error occurred")>>

\* mutationCache.onSettled
onSettled(meta, active) ==
  IF meta.invalidatesQuery # <<>>
  THEN invalidateQueries(meta.invalidatesQuery[1], active)
  ELSE {}

\* a component starts or stops observing a cached query
Observe(q) ==
  /\ mut.pc \in {"idle", "pending"}
  /\ mut' = [mut EXCEPT !.active[q] = ~mut.active[q]]
  /\ UNCHANGED <<now, cacheVars, limiterVars, oldAppVars, db, act, stream, cl, so>>

\* mutate(): a mutation with this meta starts
Mutate(meta) ==
  /\ mut.pc # "pending"
  /\ mut' = [mut EXCEPT !.pc = "pending", !.meta = meta, !.failureCount = 0,
                        !.error = "", !.toasts = <<>>, !.invalidated = {}]
  /\ UNCHANGED <<now, cacheVars, limiterVars, oldAppVars, db, act, stream, cl, so>>

\* the mutation function resolves
MutationSucceed ==
  /\ mut.pc = "pending"
  /\ mut' = [mut EXCEPT !.pc = "success",
                        !.toasts = onSuccess(mut.meta),
                        !.invalidated = onSettled(mut.meta, mut.active)]
  /\ UNCHANGED <<now, cacheVars, limiterVars, oldAppVars, db, act, stream, cl, so>>

\* onSettled run for the mutations that succeed only
MutationFailUnsettled(error) ==
  /\ mut.pc = "pending"
  /\ mut' = IF mut.failureCount < 1
            THEN [mut EXCEPT !.failureCount = mut.failureCount + 1]
            ELSE [mut EXCEPT !.pc = "error", !.error = error,
                             !.toasts = onError(error, mut.meta)]
  /\ UNCHANGED <<now, cacheVars, limiterVars, oldAppVars, db, act, stream, cl, so>>

\* the mutation function rejects with an error of this message: the first
\* failure is retried, the second one fails the mutation
MutationFail(error) ==
  /\ mut.pc = "pending"
  /\ mut' = IF mut.failureCount < 1
            THEN [mut EXCEPT !.failureCount = mut.failureCount + 1]
            ELSE [mut EXCEPT !.pc = "error", !.error = error,
                             !.toasts = onError(error, mut.meta),
                             !.invalidated = onSettled(mut.meta, mut.active)]
  /\ UNCHANGED <<now, cacheVars, limiterVars, oldAppVars, db, act, stream, cl, so>>

(***************************************************************************)
(* useClarity.  The flag clarityLoaded belongs to the module, so to the     *)
(* page; initRef and isMounted belong to each component                     *)
(* that uses the hook.  A component's effect runs after its first render    *)
(* (isMounted false) and again when isMounted has become true.  An effect   *)
(* that goes ahead awaits the import of the library and then defers the     *)
(* init to an idle callback or a timer.                                     *)
(***************************************************************************)
Components == {"A", "B"}
NewComponent == [pc |-> "new", isMounted |-> FALSE, initRef |-> FALSE]

\* a page is loaded in this environment: a new page lifetime
PageLoad(production, localhost) ==
  /\ cl' = [loaded |-> TRUE, production |-> production, localhost |-> localhost,
            clarityLoaded |-> FALSE, inits |-> 0,
            comps |-> [c \in Components |-> NewComponent]]
  /\ UNCHANGED <<now, cacheVars, limiterVars, oldAppVars, db, act, stream, mut, so>>

\* the effect of component c runs
Effect(c) ==
  /\ cl.loaded
  /\ cl.comps[c].pc \in {"new", "mounted"}
  /\ cl' = IF cl.comps[c].initRef \/ cl.clarityLoaded
           THEN [cl EXCEPT !.comps[c].pc =
                             IF cl.comps[c].isMounted THEN "skipped" ELSE "rendered"]
           ELSE IF \/ ~cl.comps[c].isMounted
                   \/ cl.localhost
                   \/ ~cl.production
           THEN [cl EXCEPT !.comps[c].pc =
                             IF cl.comps[c].isMounted THEN "skipped" ELSE "rendered"]
           ELSE [cl EXCEPT !.comps[c].initRef = TRUE, !.comps[c].pc = "loading"]
  /\ UNCHANGED <<now, cacheVars, limiterVars, oldAppVars, db, act, stream, mut, so>>

\* useIsMounted turns true for component c, which schedules its effect again
Mounted(c) ==
  /\ cl.loaded
  /\ cl.comps[c].pc = "rendered"
  /\ cl' = [cl EXCEPT !.comps[c].isMounted = TRUE, !.comps[c].pc = "mounted"]
  /\ UNCHANGED <<now, cacheVars, limiterVars, oldAppVars, db, act, stream, mut, so>>

\* the import awaited by component c settles: the init is deferred, or the
\* failure is logged and initRef is set back
LoadClarity(c, ok) ==
  /\ cl.loaded
  /\ cl.comps[c].pc = "loading"
  /\ cl' = IF ok THEN [cl EXCEPT !.comps[c].pc = "scheduled"]
           ELSE [cl EXCEPT !.comps[c].pc = "failed", !.comps[c].initRef = FALSE]
  /\ UNCHANGED <<now, cacheVars, limiterVars, oldAppVars, db, act, stream, mut, so>>

\* the deferred callback of component c runs: Clarity.init is called, and
\* clarityLoaded is set unless the call threw
InitWithCallback(c, ok) ==
  /\ cl.loaded
  /\ cl.comps[c].pc = "scheduled"
  /\ cl' = [cl EXCEPT !.comps[c].pc = "done", !.inits = cl.inits + 1,
                      !.clarityLoaded = IF ok THEN TRUE ELSE cl.clarityLoaded]
  /\ UNCHANGED <<now, cacheVars, limiterVars, oldAppVars, db, act, stream, mut, so>>

(***************************************************************************)
(* The home page's sign-out button.  handleSignOut hands the promise of    *)
(* the signOut server action to toast.promise and awaits what that returns *)
(* under tryCatch.  toast.promise shows the loading toast at once, hooks   *)
(* its success and error toasts onto the promise, and returns the toast's  *)
(* id: a value that is no promise, so the await ends before the server     *)
(* action has settled.                                                     *)
(***************************************************************************)
\* the most clicks on the button followed on one page
MaxClicks == 3

\* the server action: what auth.api.signOut (or headers) did decides it
signOut(auth) ==
  IF auth.at = "headers" THEN Rejected
  ELSE IF isFailure(tryCatch(auth.settled))
  THEN Resolved([success |-> FALSE,
                 message |-> IF auth.message = <<>> THEN "Something went wrong"
                             ELSE auth.message[1]])
  ELSE Resolved([success |-> TRUE, message |-> "Signed out successfully"])

\* what toast.promise returns to its caller
toastPromise(id) == Resolved([t |-> "id", id |-> id])

\* the toast that toast.promise shows when the promise it was given settles
toastSettled(id, settled) ==
  IF settled.ok THEN [id |-> id, kind |-> "success", text |-> "Signed out successfully"]
  ELSE [id |-> id, kind |-> "error", text |-> "Failed to sign out"]

\* a click: the whole of handleSignOut up to its return
HandleSignOut ==
  /\ Len(so.calls) < MaxClicks
  /\ LET id == Len(so.calls) + 1
         result == tryCatch(toastPromise(id))
     IN so' = [so EXCEPT
          !.calls = Append(@, [pc |-> "pending", returned |-> Rejected]),
          !.toasts = @ \o <<[id |-> id, kind |-> "loading", text |-> "Signing out..."]>>
                       \o (IF isFailure(result)
                           THEN <<[id |-> 0, kind |-> "error",
                                   text |-> "An unexpected error occurred"]>>
                           ELSE <<>>),
          !.logged = IF isFailure(result) THEN @ + 1 ELSE @,
          !.pushed = IF isFailure(result) THEN @
                     ELSE Append(@, [id |-> id, href |-> "/auth/sign-in"])]
  /\ UNCHANGED <<now, cacheVars, limiterVars, oldAppVars, db, act, stream, mut, cl>>

\* the server action of call id settles, and toast.promise shows its toast
SignOutSettle(id, auth) ==
  /\ id \in 1..Len(so.calls)
  /\ so.calls[id].pc = "pending"
  /\ LET settled == signOut(auth)
     IN so' = [so EXCEPT
          !.calls[id] = [pc |-> "settled", returned |-> settled],
          !.toasts = Append(@, toastSettled(id, settled))]
  /\ UNCHANGED <<now, cacheVars, limiterVars, oldAppVars, db, act, stream, mut, cl>>

(***************************************************************************)
(* Inputs.                                                                 *)
(***************************************************************************)
Keys == {<<"a">>, <<"b">>}
Values ==
  { JBool(FALSE), JNum(0), JStr(<<>>),
    JObj(<<Member(<<"k">>, JArr(<<JNull, JStr(<<"\"", "\\">>)>>)),
           Member(<<"n">>, JNum(0 - 12))>>) }
TtlArgs == {<<>>, <<0>>, <<1>>}
ForeignRaws == { <<>>, <<"{", "\"", "k", "\"">> }
Instants == {0, 1000}

TtlKeys == {<<"a">>}
TtlValues == {JNum(1), JNum(2)}
TtlSeconds == {<<>>, <<1>>, <<2>>}
TtlInstants == {0, 1000, 2000, 3000, 3600000, 3601000}

PrefixKeys == {<<"u", "1", "a">>, <<"u", "1", "b">>, <<"u", "2", "a">>}
Prefixes == {<<"u", "1">>, <<"u", "?">>, <<"w">>, <<>>}
PrefixValues == {JNum(1), JNum(2)}

RLKeys == {"a", "b"}
LimiterInstants == {0, 59999, 60000, 119999, 120000}

Requests == {1, 2}
NoBytes == [arg |-> 0, text |-> <<>>]
\* byte counts around the thresholds, around halves of a hundredth, below
\* zero and up to 2^31
ByteCentres ==
  { 0 - 1024, 0, 512, 1024, 1152, 1536, 524288, 1048576, 1572864, 5242880,
    1073741824, 2147483640 }
ByteCounts == UNION { (c - 4)..(c + 4) : c \in ByteCentres }

NoCost ==
  [called |-> FALSE, promptTokens |-> 0, completionTokens |-> 0, usd |-> Zero]
\* token counts, from none to a million
TokenCounts == {0, 1, 2, 3, 7, 10, 500, 1000, 123456, 500000, 1000000}

NoMiddleware ==
  [pc |-> "idle", path |-> "", cookie |-> "none",
   session |-> Reply(JNull, FALSE), response |-> Response("none", "")]
\* paths the matcher names and paths it does not
Paths == matcher \cup {"/", "/dashboard", "/auth/settings/profile"}
Cookies == {"none", "user", "admin"}

NoQuery == [pc |-> "idle", failureCount |-> 0, attempts |-> 0, errors |-> <<>>]
\* errors without a status, and with statuses on both sides of 400 and 500
Errors == {<<>>, <<399>>, <<400>>, <<404>>, <<499>>, <<500>>, <<503>>}

NoTake ==
  [called |-> FALSE, values |-> <<>>, inArray |-> FALSE, outcome |-> ReturnedFalse]
\* result lists of up to MaxRows rows
MaxRows == 3
Rows == {"r1", "r2", "r3", "r4"}
RowLists == UNION {[1..n -> Rows] : n \in 0..MaxRows}

\* inputs of the server actions: prompts (empty, and strings that are not),
\* image sizes, content types, object keys (plain, escaped, badly escaped)
Input(prompt, size, contentType, key, type) ==
  [prompt |-> prompt, size |-> size, contentType |-> contentType,
   key |-> key, type |-> type]
Prompts == {<<>>, <<"0">>, <<" ">>, <<"h", "i">>}
Sizes == {<<>>, <<"5", "1", "2", "x", "5", "1", "2">>}
ContentTypes == {<<>>, <<"i", "m", "a", "g", "e", "/", "p", "n", "g">>}
ObjectKeys ==
  { <<"a">>, <<"%", "D", "0", "%", "B", "1">>, <<"%", "2", "5">>, <<"%">>,
    <<"%", "D", "0">>, <<"%", "z", "z">> }
ActionInputs(name) ==
  CASE name \in {"generateText", "generateObject"} ->
         {Input(p, <<>>, <<>>, <<>>, "") : p \in Prompts}
    [] name = "generateImage" ->
         {Input(p, s, <<>>, <<>>, "") : p \in Prompts, s \in Sizes}
    [] name = "uploadObject" ->
         {Input(<<>>, <<>>, c, <<"a">>, "") : c \in ContentTypes}
    [] name = "deleteObject" ->
         {Input(<<>>, <<>>, <<>>, k, "") : k \in ObjectKeys}
    [] name = "sendEmail" ->
         {Input(<<>>, <<>>, <<>>, <<>>, t) : t \in {"html", "react"}}
ActionNames ==
  {"generateText", "generateObject", "generateImage", "uploadObject",
   "deleteObject", "sendEmail"}

\* what the SDK calls can settle as: rejected, or resolved with a reply that
\* is whole, that lacks a part, or (the mail service) that reports an error
Settlements ==
  { Rejected,
    Resolved(Undefined),
    Resolved(JObj(<<>>)),
    Resolved(JObj(<<Member(<<"c", "h", "o", "i", "c", "e", "s">>, JArr(<<>>))>>)),
    Resolved(JObj(<<Member(<<"c", "h", "o", "i", "c", "e", "s">>,
      JArr(<<JObj(<<Member(<<"m", "e", "s", "s", "a", "g", "e">>, JObj(<<Member(<<"c", "o", "n", "t", "e", "n", "t">>, JNull)>>))>>)>>))>>)),
    Resolved(JObj(<<Member(<<"c", "h", "o", "i", "c", "e", "s">>,
      JArr(<<JObj(<<Member(<<"m", "e", "s", "s", "a", "g", "e">>,
        JObj(<<Member(<<"c", "o", "n", "t", "e", "n", "t">>, JStr(<<"o", "k">>))>>))>>)>>))>>)),
    Resolved(JObj(<<Member(<<"o", "b", "j", "e", "c", "t">>, JObj(<<Member(<<"a">>, JNum(1))>>))>>)),
    Resolved(JObj(<<Member(<<"d", "a", "t", "a">>, JArr(<<>>))>>)),
    Resolved(JObj(<<Member(<<"d", "a", "t", "a">>, JArr(<<JObj(<<Member(<<"u", "r", "l">>, JStr(<<"u">>))>>)>>))>>)),
    Resolved(JObj(<<Member(<<"d", "a", "t", "a">>, JNull), Member(<<"e", "r", "r", "o", "r">>,
                                                 JStr(<<"x">>))>>)) }

NoAction ==
  [pc |-> "idle", name |-> "", in |-> Input(<<>>, <<>>, <<>>, <<>>, ""),
   calls |-> <<>>, settled |-> Rejected, outcome |-> Pending]

NoStream == [pc |-> "idle", read |-> <<>>, calls |-> <<>>, late |-> 0, error |-> ""]
\* a chunk is empty, a letter, a two-byte letter, or one half of a two-byte
\* letter
Chunks == {<<>>, <<104>>, <<208, 177>>, <<208>>, <<177>>}

Meta(invalidatesQuery, successMessage, errorMessage) ==
  [invalidatesQuery |-> invalidatesQuery, successMessage |-> successMessage,
   errorMessage |-> errorMessage]
NoMutation ==
  [pc |-> "idle", meta |-> Meta(<<>>, <<>>, <<>>), failureCount |-> 0,
   error |-> "", toasts |-> <<>>, invalidated |-> {},
   active |-> [q \in CachedQueries |-> FALSE]]
\* metas with each field unset, set, and (the messages) set to the empty string
Metas ==
  { Meta(i, s, e) :
      i \in {<<>>, << <<>> >>, << <<"users">> >>, << <<"users", "1">> >>,
             << <<"tags">> >>},
      s \in {<<>>, <<"">>, <<"Saved">>},
      e \in {<<>>, <<"">>, <<"Not saved">>} }
ErrorMessages == {"", "boom"}

NoPage ==
  [loaded |-> FALSE, production |-> FALSE, localhost |-> FALSE,
   clarityLoaded |-> FALSE, inits |-> 0,
   comps |-> [c \in Components |-> NewComponent]]

NoSignOut == [calls |-> <<>>, toasts |-> <<>>, pushed |-> <<>>, logged |-> 0]
\* headers() fails; auth.api.signOut resolves; it rejects with or without a
\* message on the error
AuthOutcomes ==
  { [at |-> "headers", settled |-> Rejected, message |-> <<>>],
    [at |-> "api", settled |-> Resolved(Undefined), message |-> <<>>],
    [at |-> "api", settled |-> Rejected, message |-> <<>>],
    [at |-> "api", settled |-> Rejected, message |-> <<"Unauthorized">>] }

NoOp == Op("none", <<>>, Done)
NoConsume ==
  [op |-> "none", key |-> "", at |-> 0, ok |-> TRUE, msBeforeNext |-> 0,
   consumedPoints |-> 0, remainingPoints |-> 0, isFirstInDuration |-> FALSE]

InitWith(keys) ==
  /\ now = 0
  /\ store = EmptyStore
  /\ last = NoOp
  /\ hist = [k \in keys |-> Never]
  /\ dk = Idle
  /\ reachable = TRUE
  /\ sent = <<>>
  /\ storage = [k \in {} |-> [value |-> 0, expiresAt |-> 0]]
  /\ rlLast = NoConsume
  /\ win = [k \in RLKeys |-> NoWindow]
  /\ req = [r \in Requests |-> NoRequest]
  /\ bytes = NoBytes
  /\ cost = NoCost
  /\ mw = NoMiddleware
  /\ query = NoQuery
  /\ db = NoTake
  /\ act = NoAction
  /\ stream = NoStream
  /\ mut = NoMutation
  /\ cl = NoPage
  /\ so = NoSignOut

\* the cache actions on single keys, with values of every JSON shape
Init == InitWith(Keys)
Next ==
  \/ \E key \in Keys, value \in Values, ttl \in TtlArgs : SetRedis(key, value, ttl)
  \/ \E key \in Keys : GetRedis(key)
  \/ \E key \in Keys : DeleteRedis(key)
  \/ DeleteAllRedis
  \/ \E key \in Keys, raw \in ForeignRaws : ForeignWrite(key, raw)
  \/ \E t \in Instants : Tick(t)
Spec == Init /\ [][Next]_vars

\* expiry: one key, written and read as the clock advances up to the default ttl
InitTtl == InitWith(TtlKeys)
NextTtl ==
  \/ \E key \in TtlKeys, value \in TtlValues, ttl \in TtlSeconds :
       SetRedis(key, value, ttl)
  \/ \E key \in TtlKeys : GetRedis(key)
  \/ \E key \in TtlKeys : DeleteRedis(key)
  \/ \E t \in TtlInstants : Tick(t)
SpecTtl == InitTtl /\ [][NextTtl]_vars

\* the cache actions over a connection that comes and goes
DownKeys == {<<"u", "1", "a">>, <<"u", "2", "a">>}
DownValues == {JNum(1)}
DownPrefixes == {<<"u", "1">>, <<"w">>}
InitDown == InitWith(DownKeys)
NextDown ==
  \/ \E key \in DownKeys, value \in DownValues : SetRedis(key, value, <<>>)
  \/ \E key \in DownKeys : GetRedis(key)
  \/ \E key \in DownKeys : DeleteRedis(key)
  \/ \E prefix \in DownPrefixes : DeleteKeysWithPrefixList(prefix)
  \/ DeleteKeysWithPrefixDel
  \/ DeleteAllRedis
  \/ Disconnect
  \/ Reconnect
SpecDown == InitDown /\ [][NextDown]_vars

\* byte counts formatted one after another
InitBytes == InitWith(Keys)
NextBytes == \E b \in ByteCounts : FormatBytes(b)
SpecBytes == InitBytes /\ [][NextBytes]_vars

\* generations priced one after another
InitCost == InitWith(Keys)
NextCost ==
  \E promptTokens \in TokenCounts, completionTokens \in TokenCounts :
    CalculateCost(promptTokens, completionTokens)
SpecCost == InitCost /\ [][NextCost]_vars

\* requests through the middleware, one at a time
InitMiddleware == InitWith(Keys)
NextMiddleware ==
  \/ \E path \in Paths, cookie \in Cookies : MiddlewareRequest(path, cookie)
  \/ \E cookie \in Cookies : \E session \in Replies(cookie) :
       MiddlewareResume(session)
SpecMiddleware == InitMiddleware /\ [][NextMiddleware]_vars

\* one query, fetched again and again
InitQuery == InitWith(Keys)
NextQuery ==
  \/ QueryFetch
  \/ \E error \in Errors : QueryFail(error)
  \/ QueryRetry
  \/ QuerySucceed
SpecQuery == InitQuery /\ [][NextQuery]_vars

\* result lists handed to databaseTakeUniqueOrThrow one after another
InitTake == InitWith(Keys)
NextTake ==
  \E values \in RowLists, inArray \in BOOLEAN : TakeUnique(values, inArray)
SpecTake == InitTake /\ [][NextTake]_vars

\* server actions called one at a time
InitActions == InitWith(Keys)
NextActions ==
  \/ \E name \in ActionNames : \E in \in ActionInputs(name) :
       ServerActionCall(name, in)
  \/ \E settled \in Settlements : ServerActionSettle(settled)
SpecActions == InitActions /\ [][NextActions]_vars

\* streamed answers read one after another
InitStream == InitWith(Keys)
NextStream ==
  \/ StreamFetch
  \/ \E hasBody \in BOOLEAN : StreamResponse(hasBody)
  \/ \E chunk \in Chunks : StreamRead(chunk)
  \/ StreamDone
SpecStream == InitStream /\ [][NextStream]_vars

\* mutations run one after another while components come and go
InitMutation == InitWith(Keys)
NextMutation ==
  \/ \E q \in CachedQueries : Observe(q)
  \/ \E meta \in Metas : Mutate(meta)
  \/ MutationSucceed
  \/ \E error \in ErrorMessages : MutationFail(error)
SpecMutation == InitMutation /\ [][NextMutation]_vars

\* pages with two components that use useClarity
InitClarity == InitWith(Keys)
NextClarity ==
  \/ \E production \in BOOLEAN, localhost \in BOOLEAN :
       PageLoad(production, localhost)
  \/ \E c \in Components : Effect(c)
  \/ \E c \in Components : Mounted(c)
  \/ \E c \in Components, ok \in BOOLEAN : LoadClarity(c, ok)
  \/ \E c \in Components, ok \in BOOLEAN : InitWithCallback(c, ok)
SpecClarity == InitClarity /\ [][NextClarity]_vars

\* clicks on the sign-out button and the server action's replies
InitSignOut == InitWith(Keys)
NextSignOut ==
  \/ HandleSignOut
  \/ \E id \in 1..MaxClicks, auth \in AuthOutcomes : SignOutSettle(id, auth)
SpecSignOut == InitSignOut /\ [][NextSignOut]_vars

\* deleteKeysWithPrefix among concurrent requests
InitPrefix == InitWith(PrefixKeys)
NextPrefix ==
  \/ \E key \in PrefixKeys, value \in PrefixValues : SetRedis(key, value, <<>>)
  \/ \E key \in PrefixKeys : GetRedis(key)
  \/ \E prefix \in Prefixes : DeleteKeysWithPrefixList(prefix)
  \/ DeleteKeysWithPrefixDel
SpecPrefix == InitPrefix /\ [][NextPrefix]_vars

\* the rate limiter
InitLimiter == InitWith(Keys)
NextLimiter ==
  \/ \E key \in RLKeys : Consume(key)
  \/ \E key \in RLKeys : TimerFire(GetKey(key))
  \/ \E t \in LimiterInstants : Tick(t)
SpecLimiter == InitLimiter /\ [][NextLimiter]_vars

\* parallel requests that consume on one key
ConcKeys == {"a"}
ConcInstants == {0, 60000}
InitConc == InitWith(Keys)
NextConc ==
  \/ \E r \in Requests, key \in ConcKeys : RequestArrive(r, key)
  \/ \E r \in Requests : RequestCall(r)
  \/ \E r \in Requests : RequestResume(r)
  \/ \E key \in ConcKeys : TimerFire(GetKey(key))
  \/ \E t \in ConcInstants : Tick(t)
SpecConc == InitConc /\ [][NextConc]_vars

(***************************************************************************)
(* Properties.                                                             *)
(***************************************************************************)
\* the expiry the caller asked for: ttl seconds, 3600 when ttl is omitted
AskedSeconds(ttl) == IF ttl = <<>> THEN 3600 ELSE ttl[1]
Alive(h) == now < h.at + AskedSeconds(h.ttl) * 1000
LastGetOf(key) == last.op = "get" /\ last.key = key

\* C1: a getRedis(key) that follows setRedis(key, value, ttl) with ttl > 0,
\* before the ttl has elapsed and with no other write to the key in between,
\* returns a value equal to the value that was stored.
C1_SetThenGet ==
  \A key \in DOMAIN hist :
    (/\ LastGetOf(key)
     /\ hist[key].kind = "set"
     /\ AskedSeconds(hist[key].ttl) > 0
     /\ Alive(hist[key]))
      => last.res = Got(hist[key].value)

\* a falsy value (false, 0 or "") read back right after it was stored
C1_Witness ==
  \E key \in DOMAIN hist :
    /\ LastGetOf(key)
    /\ hist[key].kind = "set"
    /\ hist[key].at = now
    /\ Falsy(hist[key].value)
    /\ last.res = Got(hist[key].value)

LastConsumeOf(key) == rlLast.op = "consume" /\ rlLast.key = key

\* C2: within one 60 s window of a key the first 5 consume calls succeed and
\* every later call is rejected, so a key never has more than 5 accepted
\* calls in one window.
C2_BudgetPerWindow ==
  \A key \in DOMAIN win :
    /\ win[key].accepted <= 5
    /\ LastConsumeOf(key) => (rlLast.ok <=> win[key].calls <= 5)

\* a second rejected call in a window that has its 5 accepted calls
C2_Witness ==
  \E key \in DOMAIN win :
    /\ LastConsumeOf(key)
    /\ ~rlLast.ok
    /\ win[key].accepted = 5
    /\ win[key].calls = 7

\* C3: once the 60 s window that began with a key's first consumption has
\* elapsed, the next consume(key) succeeds whatever happened in that window:
\* it counts as the first point of a new window of 60 s.
C3_ResetAfterWindow ==
  \A key \in DOMAIN win :
    (LastConsumeOf(key) /\ win[key].calls = 1)
      => /\ rlLast.ok
         /\ rlLast.consumedPoints = 1
         /\ rlLast.remainingPoints = 4
         /\ rlLast.msBeforeNext = 60000
         /\ rlLast.isFirstInDuration

\* the first call after a window that ended over budget, at the very instant
\* that window ran out
C3_Witness ==
  \E key \in DOMAIN win :
    /\ LastConsumeOf(key)
    /\ win[key].calls = 1
    /\ win[key].prevOver
    /\ win[key].start = 60000
    /\ rlLast.ok

\* C4: counters are per key: the outcome of consume(b) is a function of the
\* earlier consume(b) calls and the clock alone, so a key whose own window
\* holds at most 5 calls is never rejected because another key is exhausted.
C4_IndependentKeys ==
  \A key \in DOMAIN win :
    LastConsumeOf(key)
      => /\ rlLast.consumedPoints = win[key].calls
         /\ rlLast.msBeforeNext = win[key].start + 60000 - rlLast.at
         /\ rlLast.remainingPoints = Max(5 - win[key].calls, 0)
         /\ rlLast.isFirstInDuration = (win[key].calls = 1)

\* b is accepted while a is over budget in a window that is still running
C4_Witness ==
  \E a \in DOMAIN win, b \in DOMAIN win :
    /\ a # b
    /\ win[a].calls > 5
    /\ now < win[a].start + 60000
    /\ LastConsumeOf(b)
    /\ rlLast.at = now
    /\ rlLast.ok

\* C5: when deleteKeysWithPrefix(prefix) completes with no concurrent writer,
\* every key that begins with prefix is absent and every other key holds the
\* entry it held before.
C5_PrefixDeleteExact ==
  [][(/\ last'.op = "delPrefix"
      /\ dk.pc = "listed" \/ last' # last
      /\ ~dk.raced)
       => \A key \in DOMAIN hist :
            IF IsPrefixOf(last'.key, key)
            THEN key \notin DOMAIN store'
            ELSE /\ key \in DOMAIN store <=> key \in DOMAIN store'
                 /\ key \in DOMAIN store => store'[key] = store[key]]_vars

\* C6: getRedis(key) returns undefined when the key was never set, and when
\* it was set and its ttl has since elapsed, whatever was done to other keys.
C6_AbsentWhenUnsetOrExpired ==
  \A key \in DOMAIN hist :
    (/\ LastGetOf(key)
     /\ \/ hist[key].kind = "never"
        \/ hist[key].kind = "set" /\ ~Alive(hist[key]))
      => last.res = Absent

\* a read of an expired key while another key is still stored
C6_Witness ==
  \E key \in DOMAIN hist :
    /\ LastGetOf(key)
    /\ hist[key].kind = "set"
    /\ ~Alive(hist[key])
    /\ last.res = Absent
    /\ DOMAIN store # {}

\* C7: deleteRedis(key) never fails and leaves the key absent, whether or not
\* it existed; on an absent key it leaves the store unchanged; a getRedis(key)
\* that follows with no set in between returns undefined.
C7_DeleteThenAbsent ==
  [][/\ (last'.op = "del" /\ last' # last)
          => /\ last'.res = Done
             /\ last'.key \notin DOMAIN store'
             /\ last'.key \notin DOMAIN store => store' = store
             /\ \A k \in DOMAIN store \ {last'.key} :
                  k \in DOMAIN store' /\ store'[k] = store[k]
     /\ (last'.op = "get" /\ hist'[last'.key].kind = "deleted")
          => last'.res = Absent]_vars

\* a read that follows the delete of a key that was never written
C7_Witness ==
  \E key \in DOMAIN hist :
    /\ LastGetOf(key)
    /\ hist[key].kind = "deleted"
    /\ last.res = Absent
    /\ \A k \in DOMAIN hist \ {key} : hist[k].kind = "never"
    /\ DOMAIN store = {}

\* C8: after deleteAllRedis() getRedis returns undefined for every key that
\* was in the store before the call.
C8_FlushEmpties ==
  /\ last.op = "flush" => DOMAIN store = {}
  /\ \A key \in DOMAIN hist :
       (LastGetOf(key) /\ hist[key].kind = "flushed") => last.res = Absent

\* a read of a key that the flush removed, with every key flushed
C8_Witness ==
  \E key \in DOMAIN hist :
    /\ LastGetOf(key)
    /\ last.res = Absent
    /\ \A k \in DOMAIN hist : hist[k].kind = "flushed"

\* C9: setRedis on a key that holds an entry replaces the value and restarts
\* the expiry clock: the entry is read back until ttl seconds (3600 when ttl
\* is omitted) after this set, and not after, whenever the replaced entry was
\* due to expire.
C9_OverwriteRestartsTtl ==
  \A key \in DOMAIN hist :
    (LastGetOf(key) /\ hist[key].kind = "set" /\ AskedSeconds(hist[key].ttl) > 0)
      => last.res = IF Alive(hist[key]) THEN Got(hist[key].value) ELSE Absent

\* the new value is read at a time when the replaced entry would have expired
C9_Witness ==
  \E key \in DOMAIN hist :
    /\ LastGetOf(key)
    /\ hist[key].kind = "set"
    /\ hist[key].oldExpire # NoExpiry
    /\ hist[key].oldExpire <= now
    /\ last.res = Got(hist[key].value)

\* C10: when the string stored at key is not valid JSON, getRedis(key) fails
\* with an error; it never returns undefined or a value for it.
C10_InvalidJsonFails ==
  \A key \in DOMAIN store :
    (LastGetOf(key) /\ ~JSONParse(store[key].raw).ok) => last.res = Failed


\* C11: under consume calls of parallel requests on one key no increment is
\* lost: in every interleaving the counter of a running window equals the
\* number of calls made in it, and at most 5 of them are accepted.
C11_NoLostIncrement ==
  \A key \in DOMAIN win :
    /\ win[key].accepted <= 5
    /\ (GetKey(key) \in DOMAIN storage /\ storage[GetKey(key)].expiresAt > now)
         => storage[GetKey(key)].value = win[key].calls

\* both requests have called before either resumed, in a window over budget
C11_Witness ==
  \E key \in DOMAIN win :
    /\ \A r \in Requests : req[r].pc = "awaiting" /\ req[r].key = key
    /\ ~req[1].ok /\ ~req[2].ok
    /\ win[key].calls = 7
    /\ win[key].accepted = 5
    /\ storage[GetKey(key)].value = 7


\* C12: run among concurrent setRedis calls, deleteKeysWithPrefix(prefix)
\* deletes only keys that its list step returned, and never a key that does
\* not begin with prefix (a key with the prefix that is created between the
\* list and the delete may survive the call).
C12_DeletesOnlyListedPrefixed ==
  [][(dk.pc = "listed" /\ dk'.pc = "idle")
       => \A key \in DOMAIN store \ DOMAIN store' :
            key \in dk.keys /\ IsPrefixOf(dk.prefix, key)]_vars

\* C13: deleteKeysWithPrefix(prefix) on a store with no key that begins with
\* prefix returns without an error, issues no delete and leaves every entry
\* as it was.
C13_NoMatchIsNoOp ==
  [][/\ (dk.pc = "idle" /\ dk'.pc = "listed")
          => \E key \in DOMAIN store : IsPrefixOf(dk'.prefix, key)
     /\ (dk.pc = "idle" /\ dk'.pc = "idle" /\ last'.op = "delPrefix" /\ last' # last)
          => last'.res = Done /\ store' = store]_vars


\* C14: the window is fixed, not sliding: a consume on a key whose record has
\* time left adds one point and leaves the record's end where it was, whether
\* the call is accepted or rejected; a consume on a key with no record, or
\* with a record that has run out, starts a record of one point that ends
\* 60 s later.
C14_FixedWindow ==
  [][(rlLast' # rlLast /\ rlLast'.op = "consume")
       => LET rlKey == GetKey(rlLast'.key)
          IN IF rlKey \in DOMAIN storage /\ storage[rlKey].expiresAt > now
             THEN /\ storage'[rlKey].expiresAt = storage[rlKey].expiresAt
                  /\ storage'[rlKey].value = storage[rlKey].value + 1
             ELSE storage'[rlKey] = [value |-> 1, expiresAt |-> now + 60000]]_vars

\* a rejected call late in the window: the record still ends 60 s after the
\* first call, and the call was counted
C14_Witness ==
  \E key \in DOMAIN win :
    /\ LastConsumeOf(key)
    /\ ~rlLast.ok
    /\ rlLast.at > win[key].start
    /\ GetKey(key) \in DOMAIN storage
    /\ storage[GetKey(key)] = [value |-> 7, expiresAt |-> win[key].start + 60000]


\* C15: a rejected consume(key) carries the time left until the key's window
\* ends (positive, at most 60 s), and a consume(key) made once that time has
\* passed succeeds.
C15_WaitTimeOfRejection ==
  [][/\ (rlLast'.op = "consume" /\ ~rlLast'.ok)
          => /\ rlLast'.msBeforeNext =
                  win'[rlLast'.key].start + 60000 - rlLast'.at
             /\ rlLast'.msBeforeNext > 0
             /\ rlLast'.msBeforeNext <= 60000
     /\ (/\ rlLast.op = "consume" /\ ~rlLast.ok
         /\ rlLast'.op = "consume" /\ rlLast' # rlLast
         /\ rlLast'.key = rlLast.key
         /\ now >= rlLast.at + rlLast.msBeforeNext)
          => rlLast'.ok]_vars

\* a call accepted at the very end of the wait that a rejection of the window
\* begun at 59999 announced
C15_Witness ==
  \E key \in DOMAIN win :
    /\ LastConsumeOf(key)
    /\ rlLast.ok
    /\ rlLast.at = 119999
    /\ win[key].prevOver
    /\ win[key].start = 119999


\* C16: while the store cannot be reached, each of setRedis, getRedis,
\* deleteRedis, deleteKeysWithPrefix and deleteAllRedis fails with an error to
\* its caller after one attempt: the command that failed was sent once, the
\* call ends there, nothing is written, and a failed read is not reported as
\* a miss.
C16_UnreachableFails ==
  [][(/\ ~reachable /\ ~reachable'
      /\ last' # last \/ sent' # sent \/ dk' # dk)
       => /\ last'.op \in {"set", "get", "del", "delPrefix", "flush"}
          /\ last'.res = Failed
          /\ store' = store
          /\ IF last'.op = "delPrefix" THEN dk'.pc = "idle" ELSE dk' = dk
          /\ sent' \in {<<"SET">>, <<"GET">>, <<"DEL">>, <<"KEYS">>,
                        <<"KEYS", "DEL">>, <<"FLUSHALL">>}]_vars

\* a read of a key that is in the store fails while the store is unreachable
C16_Witness ==
  \E key \in DOMAIN store :
    /\ ~reachable
    /\ last = Op("get", key, Failed)
    /\ sent = <<"GET">>

\* a deleteKeysWithPrefix call that lost the store between its list and its
\* delete fails at the delete
C16_WitnessPrefix ==
  /\ ~reachable
  /\ last.op = "delPrefix"
  /\ last.res = Failed
  /\ sent = <<"KEYS", "DEL">>
  /\ DOMAIN store # {}


\* the text before the first space of a formatted size, and the text after it
RECURSIVE UpToSpace(_)
UpToSpace(s) ==
  IF s = <<>> \/ Head(s) = " " THEN <<>> ELSE <<Head(s)>> \o UpToSpace(Tail(s))
AfterSpace(s) == SubSeq(s, Len(UpToSpace(s)) + 2, Len(s))

RECURSIVE NatOf(_)
NatOf(s) ==
  IF s = <<>> THEN 0
  ELSE NatOf(SubSeq(s, 1, Len(s) - 1)) * 10 + DigitVal(s[Len(s)])

\* s is digits, a point and two digits, and reads as the quotient b / den
\* to the nearest hundredth
ShowsQuotient(s, b, den) ==
  /\ Len(s) >= 4
  /\ s[Len(s) - 2] = "."
  /\ \A i \in (1..Len(s)) \ {Len(s) - 2} : s[i] \in Digits
  /\ LET h == NatOf(SubSeq(s, 1, Len(s) - 3)) * 100
                + NatOf(SubSeq(s, Len(s) - 1, Len(s)))
         f == h - (b \div den) * 100
         d == f * den - (b % den) * 100
     IN f \in 0..100 /\ 2 * d <= den /\ 2 * (0 - d) <= den

\* C17: formatBytes picks its unit by threshold only: a count below 1024
\* (negative counts included) is shown unscaled with the 'bajt' unit, a count
\* from 1024 up to but not including 1024*1024 in 'KB' as bytes/1024, and a
\* count of 1024*1024 or more in 'MB' as bytes/(1024*1024), however big.
C17_UnitByThreshold ==
  bytes.text # <<>> =>
    LET b == bytes.arg
        num == UpToSpace(bytes.text)
        unit == AfterSpace(bytes.text)
    IN IF b < 1024 THEN unit = Bajt /\ num = NumChars(b)
       ELSE IF b < 1048576 THEN unit = KB /\ ShowsQuotient(num, b, 1024)
       ELSE unit = MB /\ ShowsQuotient(num, b, 1048576)

\* a count of 1024^3 has been formatted, in 'MB'
C17_Witness ==
  /\ bytes.arg = 1073741824
  /\ bytes.text = <<"1", "0", "2", "4", ".", "0", "0", " ">> \o MB

\* the last count below 1024*1024 has been formatted, in 'KB'
C17_WitnessKB ==
  /\ bytes.arg = 1048575
  /\ bytes.text = <<"1", "0", "2", "4", ".", "0", "0", " ">> \o KB


\* the double x is n * 10^-8 to within one part in 2^50
NearHundredMillionths(x, n) ==
  IF n = 0 THEN x = Zero
  ELSE /\ x # Zero
       /\ x.exp < 0
       /\ LET a == Trim(MulLimbs(MulLimbs(x.m, 10000, 0), 10000, 0))
              b == ShiftLeft(NatLimbs(n), 0 - x.exp)
              d == IF LeqLimbs(a, b) THEN Trim(SubLimbs(b, a, 0))
                   ELSE Trim(SubLimbs(a, b, 0))
          IN LeqLimbs(ShiftLeft(d, 50), b)

\* C18: calculateGPT4oMiniCost(promptTokens, completionTokens) is
\* promptTokens times the prompt rate (0.00000015) plus completionTokens
\* times the completion rate (0.0000006) for all non-negative token counts:
\* it is 0 for zero tokens, and cost(p, c) = cost(p, 0) + cost(0, c).
C18_CostIsLinear ==
  cost.called =>
    LET p == cost.promptTokens
        c == cost.completionTokens
    IN /\ cost.usd = FAdd(FMul(p, PromptRate), FMul(c, CompletionRate))
       /\ NearHundredMillionths(cost.usd, 15 * p + 60 * c)
       /\ (p = 0 /\ c = 0) => cost.usd = Zero
       /\ cost.usd = FAdd(calculateGPT4oMiniCost(p, 0),
                          calculateGPT4oMiniCost(0, c))

\* a million prompt tokens and half a million completion tokens were priced
C18_Witness ==
  /\ cost.called
  /\ cost.promptTokens = 1000000
  /\ cost.completionTokens = 500000
  /\ cost.usd # Zero

\* no tokens were priced, at zero
C18_WitnessZero ==
  /\ cost.called
  /\ cost.promptTokens = 0
  /\ cost.completionTokens = 0
  /\ cost.usd = Zero


C19_WitnessVisitor ==
  /\ mw.pc = "done"
  /\ mw.path = "/auth/sign-in"
  /\ mw.cookie = "none"
  /\ ~mw.session.error
  /\ mw.response = [kind |-> "next", to |-> ""]


\* C20: the query retry policy never retries a failure whose error status is
\* in 400..499 (such a failure is the last of its fetch, which ends in the
\* error state), and retries every other failure at most twice: one fetch
\* makes at most 3 attempts, and its third failure ends it in the error state.
C20_RetryPolicy ==
  /\ query.attempts <= 3
  /\ Len(query.errors) <= query.attempts
  /\ \A i \in 1..Len(query.errors) :
       (query.errors[i] # <<>> /\ query.errors[i][1] \in 400..499)
         => i = Len(query.errors) /\ i = query.attempts /\ query.pc = "error"
  /\ Len(query.errors) = 3 => query.pc = "error"

\* a fetch has failed three times, with errors outside 400..499, and has ended
C20_Witness ==
  /\ query.pc = "error"
  /\ query.attempts = 3
  /\ query.errors = << <<500>>, <<>>, <<503>> >>

\* a fetch has ended at its second attempt, on a 404
C20_WitnessClient ==
  /\ query.pc = "error"
  /\ query.attempts = 2
  /\ query.errors = << <<500>>, <<404>> >>


\* C21: databaseTakeUniqueOrThrow throws when given an empty result list and
\* when given a list of more than one element; it returns the single element
\* only when the list has exactly one.
C21_UniqueOrThrow ==
  db.called =>
    IF Len(db.values) = 1
    THEN db.outcome = [kind |-> "row", row |-> db.values[1], rows |-> <<>>]
    ELSE db.outcome.kind = "throw"


\* C22: generateText, generateObject, generateImage, uploadObject,
\* deleteObject and sendEmail do not throw when the SDK call they wrap fails:
\* each returns a response whose success is false and whose data is
\* undefined; and success is true only when the SDK call resolved.
C22_FailureIsAnswered ==
  (/\ act.pc = "done"
   /\ act.name \in {"generateText", "generateObject", "generateImage",
                    "uploadObject", "deleteObject", "sendEmail"})
    => /\ (act.calls # <<>> /\ ~act.settled.ok)
            => /\ act.outcome.kind = "return"
               /\ ~act.outcome.success
               /\ act.outcome.data = [t |-> "undefined"]
       /\ (act.outcome.kind = "return" /\ act.outcome.success)
            => act.calls # <<>> /\ act.settled.ok

\* the send of an email was rejected and sendEmail returned a failure
C22_Witness ==
  /\ act.pc = "done"
  /\ act.name = "sendEmail"
  /\ Len(act.calls) = 1
  /\ ~act.settled.ok
  /\ act.outcome.kind = "return"
  /\ ~act.outcome.success

\* C23: generateText and generateImage called with an empty prompt return a
\* failure response (success false, data undefined) without making any call
\* to the OpenAI client.
C23_EmptyPromptNoCall ==
  (/\ act.pc # "idle"
   /\ act.name \in {"generateText", "generateImage"}
   /\ act.in.prompt = <<>>)
    => /\ act.pc = "done"
       /\ act.calls = <<>>
       /\ act.outcome.kind = "return"
       /\ ~act.outcome.success
       /\ act.outcome.data = [t |-> "undefined"]

\* generateImage was called with an empty prompt and a size, and has answered
C23_Witness ==
  /\ act.pc = "done"
  /\ act.name = "generateImage"
  /\ act.in.prompt = <<>>
  /\ act.in.size # <<>>
  /\ act.calls = <<>>
  /\ ~act.outcome.success

\* generateText was called with the prompt "0", which is not empty, and
\* called the OpenAI client
C23_WitnessCalled ==
  /\ act.name = "generateText"
  /\ act.in.prompt = <<"0">>
  /\ Len(act.calls) = 1


NonEmpty(s) == s # <<>>

\* C24: fetchStreamedText calls onChunk once for each non-empty chunk read
\* from the response body, in arrival order, makes no onChunk call after the
\* reader reports done, and returns once the stream is done; when the
\* response has no body it throws 'No response body' before any onChunk call.
C24_ChunksInOrder ==
  /\ stream.late = 0
  /\ SelectSeq(stream.calls, NonEmpty)
       = SelectSeq([i \in 1..Len(stream.read) |-> decode(stream.read[i])], NonEmpty)
  /\ \A i \in 1..Len(stream.read) :
       stream.read[i] # <<>> => Len(stream.calls) >= i /\ stream.calls[i] # <<>>
  /\ stream.pc = "threw"
       => stream.error = "No response body" /\ stream.calls = <<>>
                                            /\ stream.read = <<>>

\* a stream of three chunks, the middle one empty, has been read to its end
C24_Witness ==
  /\ stream.pc = "returned"
  /\ Len(stream.read) = 3
  /\ stream.read[1] # <<>>
  /\ stream.read[2] = <<>>
  /\ stream.read[3] # <<>>
  /\ stream.late = 0

\* a response without a body made the call throw
C24_WitnessNoBody ==
  /\ stream.pc = "threw"
  /\ stream.calls = <<>>


\* C25: for every mutation whose meta sets invalidatesQuery, the matching
\* active queries are invalidated when the mutation settles, on success and
\* on error alike; an error toast is shown for every failed mutation (the
\* text is meta.errorMessage if there is one, else the error's message if
\* there is one, else a default text), and a success toast only when
\* meta.successMessage is set.
C25_SettledMutation ==
  mut.pc \in {"success", "error"} =>
    /\ mut.meta.invalidatesQuery # <<>> =>
         \A q \in DOMAIN mut.active :
           q \in mut.invalidated
             <=> /\ mut.active[q]
                 /\ Len(mut.meta.invalidatesQuery[1]) <= Len(q)
                 /\ SubSeq(q, 1, Len(mut.meta.invalidatesQuery[1]))
                      = mut.meta.invalidatesQuery[1]
    /\ mut.pc = "error" =>
         mut.toasts =
           << [kind |-> "error",
               text |-> IF mut.meta.errorMessage \notin {<<>>, <<"">>}
                        THEN mut.meta.errorMessage[1]
                        ELSE IF mut.error # "" THEN mut.error
                        ELSE "An unexpected error occurred"] >>
    /\ \A i \in 1..Len(mut.toasts) :
         mut.toasts[i].kind = "success"
           => mut.pc = "success" /\ mut.meta.successMessage # <<>>

\* a failed mutation invalidated the active query under its key and left the
\* inactive one alone
C25_Witness ==
  /\ mut.pc = "error"
  /\ mut.meta.invalidatesQuery = << <<"users">> >>
  /\ mut.active[<<"users">>]
  /\ ~mut.active[<<"users", "1">>]
  /\ mut.invalidated = {<<"users">>}
  /\ Len(mut.toasts) = 1

\* a mutation that succeeded showed its success message
C25_WitnessSuccess ==
  /\ mut.pc = "success"
  /\ mut.toasts = << [kind |-> "success", text |-> "Saved"] >>


\* C26: Clarity.init is called at most once per page lifetime, for any
\* number of components that use useClarity and any order of their effects
\* and of the deferred init callbacks, and it is never called when the
\* environment is not production or the base URL is http://localhost:3000.
C26_InitOnce ==
  /\ cl.inits <= 1
  /\ (~cl.production \/ cl.localhost) => cl.inits = 0


\* useClarity: the environment guard alone
C26_EnvironmentGuard == (~cl.production \/ cl.localhost) => cl.inits = 0
C26_WitnessTwice == cl.inits = 2 /\ cl.clarityLoaded


\* the sign-out of call id succeeded: its server action has replied success true
SignedOut(id) ==
  /\ so.calls[id].pc = "settled"
  /\ so.calls[id].returned.ok
  /\ so.calls[id].returned.value.success

C27_WitnessFailedSignOut ==
  \E id \in 1..Len(so.calls) :
    /\ so.calls[id].pc = "settled"
    /\ so.calls[id].returned.ok
    /\ ~so.calls[id].returned.value.success
    /\ \E i \in 1..Len(so.pushed) : so.pushed[i].id = id
    /\ \E i \in 1..Len(so.toasts) :
         so.toasts[i].id = id /\ so.toasts[i].kind = "success"

====
